---- MODULE Spec2Model ----
(***************************************************************************)
(* Model of the Apollo orchestration core.                                 *)
(*                                                                         *)
(*   services/apollo_executor.rs   ApolloExecutor (process_user,           *)
(*                                 execute_strategy, execute_action,       *)
(*                                 report_results, monitor_and_rebalance)  *)
(*                                 and start_apollo_background_tasks       *)
(*   services/strategy_generator.rs StrategyGenerator::generate_strategy   *)
(*   src/router.rs                 ApolloRouter (route_query and helpers)  *)
(*   src/api.rs                    the HTTP query endpoint                 *)
(*                                                                         *)
(* The profile store (Atlas), the crypto venue (Delt), the brokerage and   *)
(* the agent handlers are external: every call to them either returns a    *)
(* value or fails, and the model explores both outcomes.                   *)
(***************************************************************************)
EXTENDS Integers, Sequences, FiniteSets, TLC

(***************************************************************************)
(* Bounds of the exploration.                                              *)
(***************************************************************************)
MaxActions == 3      \* longest strategy action list
MaxGoals == 2        \* most goals in a profile
MaxActive == 2       \* most active strategies in a profile
MaxTickActions == 1  \* longest strategy executed in the fair runs of the monitor
MaxWords == 3        \* most words in a query
MaxDomains == 2      \* most entries in context.available_data_types
MaxSupporting == 2   \* most supporting agents in a plan handed to execute_agents
MaxConcActions == 2  \* longest strategy in the runs of process_user beside the monitor
MaxDataTypes == 3      \* data types of the intent of a direct select_agents call
MaxIntentWords == 2    \* words of the query of a direct analyze_intent call
MaxResults == 2        \* results handed to a direct synthesize_response call

(***************************************************************************)
(* Executor state.  "user" is a caller of process_user, "monitor" is the   *)
(* task spawned by start_apollo_background_tasks.                          *)
(***************************************************************************)
VARIABLES
    pc,            \* [Procs -> position in the code]
    strategy,      \* [Procs -> the ApolloStrategy being handled, or NoStrategy]
    idx,           \* [Procs -> number of actions the for loop has processed]
    executed,      \* [Procs -> Vec<ExecutedAction>]
    failed,        \* [Procs -> Vec<FailedAction>]
    report,        \* [Procs -> ExecutionResult returned by execute_strategy]
    ret,           \* [Procs -> result of the entry point: none / ok / err]
    status,        \* [Procs -> status of the strategy in the profile store]
    storeCalls,    \* [Procs -> calls received by the profile store]
    venueCalls,    \* [Procs -> calls received by Delt and the brokerage]
    crypto_value,  \* monitor_and_rebalance local
    stock_value,   \* monitor_and_rebalance local
    profile        \* monitor_and_rebalance local

execVars == <<pc, strategy, idx, executed, failed, report, ret, status,
              storeCalls, venueCalls, crypto_value, stock_value, profile>>

(***************************************************************************)
(* Router state: one request on its way through query / route_query.       *)
(***************************************************************************)
VARIABLES
    rpc,           \* position of the request in route_query / query
    request,       \* QueryRequest: query text and context.available_data_types
    intent,        \* QueryIntent from analyze_intent
    plan,          \* AgentPlan from select_agents
    sup_idx,       \* supporting agents the loop of execute_agents has run
    outcomes,      \* execute_agent invocations so far, with their outcome
    results,       \* Vec<AgentResult> of execute_agents
    dispatch,      \* result of execute_agents: none / ok / err
    synth_calls,   \* number of synthesize_response calls
    response,      \* ApolloResponse, or NoResponse
    route_result,  \* result of route_query: none / ok / err
    http           \* answer of the query endpoint

routerVars == <<rpc, request, intent, plan, sup_idx, outcomes, results, dispatch,
                synth_calls, response, route_result, http>>

(***************************************************************************)
(* The answers of the two informational endpoints of api.rs.               *)
(***************************************************************************)
VARIABLES
    agents_reply,  \* body of the answer to GET /apollo/agents
    health_reply   \* body of the answer to GET /apollo/health

apiVars == <<agents_reply, health_reply>>

(***************************************************************************)
(* Strategy generator state: one generate_strategy call in detail.         *)
(***************************************************************************)
VARIABLES
    gpc,           \* position in generate_strategy
    gen_profile,   \* the CompleteFinancialProfile read from the store
    gen_analysis,  \* PortfolioAnalysis::target_allocation
    gen_strategy   \* the ApolloStrategy built by generate_ai_strategy

genVars == <<gpc, gen_profile, gen_analysis, gen_strategy>>

vars == <<pc, strategy, idx, executed, failed, report, ret, status,
          storeCalls, venueCalls, crypto_value, stock_value, profile,
          rpc, request, intent, plan, sup_idx, outcomes, results, dispatch,
          synth_calls, response, route_result, http,
          agents_reply, health_reply,
          gpc, gen_profile, gen_analysis, gen_strategy>>

Procs == {"user", "monitor"}

NoStrategy == [actions |-> <<>>, goal_id |-> "unset"]
NoReport == [strategy_id |-> "unset"]
NoProfile == [goals |-> <<>>, active_strategies |-> <<>>, read |-> FALSE]
NoValue == -1

(***************************************************************************)
(* Inputs.                                                                 *)
(***************************************************************************)
\* StrategyAction values a stored strategy may hold (asset_class,
\* action_type, priority are the fields the executor reads or copies).
ActionPool ==
    { [asset_class |-> "crypto", action_type |-> "buy",             priority |-> 2],
      [asset_class |-> "stocks", action_type |-> "buy",             priority |-> 1],
      [asset_class |-> "nft",    action_type |-> "breed",           priority |-> 3],
      [asset_class |-> "nft",    action_type |-> "buy",             priority |-> 1],
      [asset_class |-> "nft",    action_type |-> "lock_collateral", priority |-> 2],
      [asset_class |-> "nft",    action_type |-> "stake",           priority |-> 3],
      [asset_class |-> "bond",   action_type |-> "buy",             priority |-> 1] }

SeqsUpTo(S, n) == UNION { [1..k -> S] : k \in 0..n }

ActionLists == SeqsUpTo(ActionPool, MaxActions)

Strategies == { [actions |-> as, goal_id |-> g] :
                    as \in ActionLists, g \in {"None", "Some"} }

ShortStrategies == { s \in Strategies : Len(s.actions) <= MaxTickActions }


\* FinancialGoal: the fields read by the monitor (auto_execute) and by the
\* strategy generator (status).
Goals == [status : {"active", "paused"}, auto_execute : BOOLEAN]

\* target_allocation of an active strategy: a JSON object that may or may not
\* hold a "crypto" number.  Numbers are exact rationals <<numerator,
\* denominator>>: <<3, 10>> is 0.30.
TargetAllocations == { [crypto |-> <<3, 10>>], [stocks |-> <<7, 10>>] }

ActiveStrategies == [target_allocation : TargetAllocations]

Profiles == { [goals |-> g, active_strategies |-> a, read |-> TRUE] :
                  g \in SeqsUpTo(Goals, MaxGoals),
                  a \in SeqsUpTo(ActiveStrategies, MaxActive) }

\* Values the venues may report (currency units).
CryptoValues == {0, 350000, 350001}
StockValues == {0, 650000}

(***************************************************************************)
(* Action Executor: execute_action and the three per-venue functions.      *)
(* Each returns the venue calls it made and the Result it produced;        *)
(* venue_ok is the outcome of the venue call, call_no the identifier the   *)
(* venue assigns.                                                          *)
(***************************************************************************)
Abs(x) == IF x < 0 THEN -x ELSE x

ActionOk(calls, id) == [calls |-> calls, ok |-> TRUE, result_id |-> id, error |-> "none"]
ActionErr(calls, e) == [calls |-> calls, ok |-> FALSE, result_id |-> "none", error |-> e]

VenueCall(venue, op, a) == [venue |-> venue, op |-> op, action |-> a]

execute_crypto_action(a, venue_ok, call_no) ==
    LET call == VenueCall("delt", "place_order", a)
    IN  IF venue_ok THEN ActionOk(<<call>>, <<"tx_hash", call_no>>)
                    ELSE ActionErr(<<call>>, "Failed to place crypto order")

\* The stock order placed through the Delt client.
execute_stock_action_on_delt(a, venue_ok, call_no) ==
    LET call == VenueCall("delt", "place_order", a)
    IN  IF venue_ok THEN ActionOk(<<call>>, <<"order_id", call_no>>)
                    ELSE ActionErr(<<call>>, "Failed to place stock order")

execute_stock_action(a, venue_ok, call_no) ==
    LET call == VenueCall("brokerage", "place_order", a)
    IN  IF venue_ok THEN ActionOk(<<call>>, <<"order_id", call_no>>)
                    ELSE ActionErr(<<call>>, "Failed to place stock order")

\* The match on action_type with a last arm that buys.
execute_nft_action_default_buy(a, venue_ok, call_no) ==
    CASE a.action_type = "breed" ->
            LET call == VenueCall("delt", "breed_nft", a)
            IN  IF venue_ok THEN ActionOk(<<call>>, <<"token_id", call_no>>)
                            ELSE ActionErr(<<call>>, "venue error")
      [] a.action_type = "lock_collateral" ->
            LET call == VenueCall("delt", "lock_nft_collateral", a)
            IN  IF venue_ok THEN ActionOk(<<call>>, <<"position_id", call_no>>)
                            ELSE ActionErr(<<call>>, "venue error")
      [] OTHER ->
            LET call == VenueCall("delt", "buy_nft", a)
            IN  IF venue_ok THEN ActionOk(<<call>>, <<"tx_hash", call_no>>)
                            ELSE ActionErr(<<call>>, "venue error")

execute_nft_action(a, venue_ok, call_no) ==
    CASE a.action_type = "breed" ->
            LET call == VenueCall("delt", "breed_nft", a)
            IN  IF venue_ok THEN ActionOk(<<call>>, <<"token_id", call_no>>)
                            ELSE ActionErr(<<call>>, "venue error")
      [] a.action_type = "buy" ->
            LET call == VenueCall("delt", "buy_nft", a)
            IN  IF venue_ok THEN ActionOk(<<call>>, <<"tx_hash", call_no>>)
                            ELSE ActionErr(<<call>>, "venue error")
      [] a.action_type = "lock_collateral" ->
            LET call == VenueCall("delt", "lock_nft_collateral", a)
            IN  IF venue_ok THEN ActionOk(<<call>>, <<"position_id", call_no>>)
                            ELSE ActionErr(<<call>>, "venue error")
      [] OTHER -> ActionErr(<<>>, "Unknown NFT action")

execute_action_any_venue(a, venue_ok, call_no) ==
    CASE a.asset_class = "stocks" -> execute_stock_action(a, venue_ok, call_no)
      [] a.asset_class = "nft" -> execute_nft_action(a, venue_ok, call_no)
      [] OTHER -> execute_crypto_action(a, venue_ok, call_no)

execute_action(a, venue_ok, call_no) ==
    CASE a.asset_class = "crypto" -> execute_crypto_action(a, venue_ok, call_no)
      [] a.asset_class = "stocks" -> execute_stock_action(a, venue_ok, call_no)
      [] a.asset_class = "nft" -> execute_nft_action(a, venue_ok, call_no)
      [] OTHER -> ActionErr(<<>>, "Unknown asset class")

(***************************************************************************)
(* Strategy Execution Engine: the pieces of execute_strategy.              *)
(***************************************************************************)
ExecutedAction(a, id) == [action |-> a, result_id |-> id]

\* A mutation of FailedAction: the record loses the text of the error.
FailedActionWithoutText(a, e) == [action |-> a, error |-> "none"]

\* FailedAction { action: action.clone(), error: e.to_string() }.
FailedAction(a, e) == [action |-> a, error |-> e]

PushExecuted(ex, a, r) == Append(ex, ExecutedAction(a, r.result_id))

PushFailedDropped(fl, a, r) == fl

PushFailed(fl, a, r) == Append(fl, FailedAction(a, r.error))

\* The for loop goes on to the next action whatever the outcome r was.
NextIndexAbortOnFailure(i, r, n) == IF r.ok THEN i + 1 ELSE n

NextIndex(i, r, n) == i + 1

ExecutionResult(s, ex, fl) ==
    [strategy_id |-> "set", executed |-> ex, failed |-> fl,
     total_executed |-> Len(ex), total_failed |-> Len(fl)]

StoreCall(op, ok) == [op |-> op, ok |-> ok]

\* A mutation of AfterMarkExecuting: the `?` after mark_strategy_executing is
\* missing, so the loop runs whatever the store answered.
AfterMarkExecutingUnchecked(ok, p) == "loop"

\* Where execute_strategy goes after mark_strategy_executing(..).await?: into
\* the loop on Ok; on Err the `?` returns the error to the caller, which
\* returns it in turn (process_user line 94, monitor_and_rebalance line 296).
AfterMarkExecuting(ok, p) ==
    IF ok THEN "loop" ELSE IF p = "user" THEN "returned" ELSE "tick_end"

\* self.atlas.mark_strategy_executing(..).await? on entry of execute_strategy.
MarkExecuting(p) ==
    /\ pc[p] = "mark_executing"
    /\ \E ok \in BOOLEAN :
        /\ storeCalls' = [storeCalls EXCEPT ![p] = Append(@, StoreCall("mark_strategy_executing", ok))]
        /\ status' = IF ok THEN [status EXCEPT ![p] = "executing"] ELSE status
        /\ pc' = [pc EXCEPT ![p] = AfterMarkExecuting(ok, p)]
        /\ ret' = IF AfterMarkExecuting(ok, p) = "loop"
                  THEN ret ELSE [ret EXCEPT ![p] = "err"]
    /\ UNCHANGED <<strategy, idx, executed, failed, report, venueCalls,
                   crypto_value, stock_value, profile>>
    /\ UNCHANGED <<routerVars, apiVars, genVars>>

\* A mutation of IterationOrder: the actions are attempted by ascending
\* priority (a stable insertion sort) instead of in their stored order.
RECURSIVE IterationOrderByPriority(_)
IterationOrderByPriority(acts) ==
    IF acts = <<>> THEN <<>>
    ELSE LET sorted == IterationOrderByPriority(SubSeq(acts, 1, Len(acts) - 1))
             a == acts[Len(acts)]
             k == Cardinality({i \in 1..Len(sorted) : sorted[i].priority <= a.priority})
         IN  SubSeq(sorted, 1, k) \o <<a>> \o SubSeq(sorted, k + 1, Len(sorted))

\* `for action in &strategy.actions`: the iterator of a Vec yields the
\* elements in their stored order; `priority` is never read.
IterationOrder(acts) == acts

\* One iteration of `for action in &strategy.actions`.
ExecuteActionStep(p) ==
    /\ pc[p] = "loop"
    /\ idx[p] < Len(strategy[p].actions)
    /\ LET a == IterationOrder(strategy[p].actions)[idx[p] + 1]
       IN  \E venue_ok \in BOOLEAN :
             LET r == execute_action(a, venue_ok, Len(venueCalls[p]) + 1)
             IN  /\ venueCalls' = [venueCalls EXCEPT ![p] = @ \o r.calls]
                 /\ IF r.ok
                    THEN /\ executed' = [executed EXCEPT ![p] = PushExecuted(@, a, r)]
                         /\ failed' = failed
                    ELSE /\ failed' = [failed EXCEPT ![p] = PushFailed(@, a, r)]
                         /\ executed' = executed
                 /\ idx' = [idx EXCEPT ![p] = NextIndex(@, r, Len(strategy[p].actions))]
    /\ UNCHANGED <<pc, strategy, report, ret, status, storeCalls,
                   crypto_value, stock_value, profile>>
    /\ UNCHANGED <<routerVars, apiVars, genVars>>

\* A mutation of AfterExecuteStrategy: process_user gives up with an error as
\* soon as the report holds a failed action, and never reports the results.
AfterExecuteStrategyFailFast(rep) ==
    IF rep.total_failed > 0 THEN "returned" ELSE "complete_strategy"

\* process_user lines 94-97: `let result = self.execute_strategy(..).await?;`
\* is followed by report_results whatever the report holds; total_failed is
\* only logged.
AfterExecuteStrategy(rep) == "complete_strategy"

\* The loop is over: execute_strategy returns Ok(ExecutionResult).  In
\* process_user the report goes on to report_results; in
\* monitor_and_rebalance the value is dropped and the tick returns Ok(()).
ExecuteStrategyReturn(p) ==
    /\ pc[p] = "loop"
    /\ idx[p] >= Len(strategy[p].actions)
    /\ report' = [report EXCEPT ![p] = ExecutionResult(strategy[p], executed[p], failed[p])]
    /\ IF p = "user"
       THEN /\ pc' = [pc EXCEPT ![p] = AfterExecuteStrategy(report'[p])]
            /\ ret' = IF AfterExecuteStrategy(report'[p]) = "returned"
                      THEN [ret EXCEPT ![p] = "err"] ELSE ret
       ELSE /\ pc' = [pc EXCEPT ![p] = "tick_end"]
            /\ ret' = [ret EXCEPT ![p] = "ok"]
    /\ UNCHANGED <<strategy, idx, executed, failed, status, storeCalls, venueCalls,
                   crypto_value, stock_value, profile>>
    /\ UNCHANGED <<routerVars, apiVars, genVars>>


(***************************************************************************)
(* StrategyGenerator::generate_strategy.  It reads the profile and the     *)
(* Delt portfolio, fails when the profile has no active goal               *)
(* (determine_target_allocation), and returns the strategy as saved by the *)
(* profile store (create_strategy).                                        *)
(***************************************************************************)
HasActiveGoal(prof) == \E i \in 1..Len(prof.goals) : prof.goals[i].status = "active"

\* The Result of generate_strategy: an error, or the saved strategy.
GenerateFailed == [actions |-> <<>>, goal_id |-> "error"]

GenerateOutcomes(prof, saved) ==
    {GenerateFailed} \cup (IF HasActiveGoal(prof) THEN saved ELSE {})

\* out \in GenerateOutcomes(prof, saved), without building the set
IsGenerateOutcome(out, prof, saved) ==
    out = GenerateFailed \/ (HasActiveGoal(prof) /\ out \in saved)

(***************************************************************************)
(* generate_strategy in detail: the profile read, analyze_portfolio with   *)
(* determine_target_allocation, generate_ai_strategy and create_strategy.  *)
(* Amounts are exact rationals <<numerator, denominator>>.                 *)
(***************************************************************************)
RiskTolerances == {"conservative", "moderate", "aggressive", "balanced"}

GenGoals == [status : {"active", "paused"}, risk_tolerance : RiskTolerances]

\* profile.summary.total_goal_value, in currency units
TotalGoalValues == {1, 20, 100000}

GenProfiles == [goals : SeqsUpTo(GenGoals, MaxGoals), total_goal_value : TotalGoalValues]

NoGenProfile == [goals |-> <<>>, total_goal_value |-> 0]

\* pub struct AllocationBreakdown
NoAllocation ==
    [stocks |-> <<0, 1>>, crypto |-> <<0, 1>>, nfts |-> <<0, 1>>, cash |-> <<0, 1>>,
     total |-> <<0, 1>>]

NoGenStrategy ==
    [status |-> "unset", goal_id |-> "unset", target_allocation |-> NoAllocation,
     actions |-> <<>>]

\* profile.goals.iter().find(|g| g.status == "active")
PrimaryGoal(prof) ==
    LET k == CHOOSE i \in 1..Len(prof.goals) :
                 /\ prof.goals[i].status = "active"
                 /\ \A j \in 1..(i - 1) : prof.goals[j].status # "active"
    IN  prof.goals[k]

\* (stocks_pct, crypto_pct, nfts_pct, cash_pct), in hundredths
AllocationPercentages(risk_tolerance) ==
    CASE risk_tolerance = "conservative" -> [stocks |-> 40, crypto |-> 10, nfts |-> 5, cash |-> 45]
      [] risk_tolerance = "moderate" -> [stocks |-> 50, crypto |-> 30, nfts |-> 10, cash |-> 10]
      [] risk_tolerance = "aggressive" -> [stocks |-> 40, crypto |-> 45, nfts |-> 10, cash |-> 5]
      [] OTHER -> [stocks |-> 50, crypto |-> 30, nfts |-> 10, cash |-> 10]

\* fn determine_target_allocation, for a profile with an active goal:
\* stocks: total_target * stocks_pct, .., total: total_target
determine_target_allocation(prof) ==
    LET pct == AllocationPercentages(PrimaryGoal(prof).risk_tolerance)
        total_target == prof.total_goal_value
    IN  [stocks |-> <<total_target * pct.stocks, 100>>,
         crypto |-> <<total_target * pct.crypto, 100>>,
         nfts |-> <<total_target * pct.nfts, 100>>,
         cash |-> <<total_target * pct.cash, 100>>,
         total |-> <<total_target, 1>>]

\* The actions of generate_ai_strategy.  sum_position_values returns 0.0, so
\* gap.stocks_diff and gap.crypto_diff are the target amounts themselves.
GeneratedActions(target) ==
    (IF target.stocks[1] > 1000 * target.stocks[2]
     THEN <<[asset_class |-> "stocks", action_type |-> "buy", priority |-> 1]>>
     ELSE <<>>)
    \o
    (IF target.crypto[1] > 1000 * target.crypto[2]
     THEN <<[asset_class |-> "crypto", action_type |-> "buy", priority |-> 2],
            [asset_class |-> "crypto", action_type |-> "buy", priority |-> 3]>>
     ELSE <<>>)

\* Ok(ApolloStrategy { goal_id: profile.goals.first().map(|g| g.id),
\*   target_allocation: serde_json::to_value(&analysis.target_allocation)?,
\*   actions, status: "generated", .. })
generate_ai_strategy(prof, target) ==
    [status |-> "generated",
     goal_id |-> IF Len(prof.goals) > 0 THEN "Some" ELSE "None",
     target_allocation |-> target,
     actions |-> GeneratedActions(target)]

GenFails ==
    /\ gpc' = "gen_returned"
    /\ gen_strategy' = [NoGenStrategy EXCEPT !.status = "error"]

\* generate_strategy steps 1-3: the profile and the portfolios are read.
GenerateStrategy ==
    /\ gpc = "idle"
    /\ \E ok \in BOOLEAN, prof \in GenProfiles :
          IF ok
          THEN /\ gen_profile' = prof
               /\ gpc' = "analyze_portfolio"
               /\ gen_strategy' = gen_strategy
          ELSE /\ gen_profile' = gen_profile
               /\ GenFails
    /\ UNCHANGED gen_analysis
    /\ UNCHANGED <<execVars, routerVars, apiVars>>

\* step 4: let analysis = self.analyze_portfolio(..)?;
AnalyzePortfolio ==
    /\ gpc = "analyze_portfolio"
    /\ IF HasActiveGoal(gen_profile)
       THEN /\ gen_analysis' = determine_target_allocation(gen_profile)
            /\ gpc' = "generate_ai_strategy"
            /\ gen_strategy' = gen_strategy
       ELSE /\ gen_analysis' = gen_analysis
            /\ GenFails
    /\ UNCHANGED gen_profile
    /\ UNCHANGED <<execVars, routerVars, apiVars>>

\* step 5: let strategy = self.generate_ai_strategy(&profile, &analysis).await?;
GenerateAiStrategy ==
    /\ gpc = "generate_ai_strategy"
    /\ gen_strategy' = generate_ai_strategy(gen_profile, gen_analysis)
    /\ gpc' = "create_strategy"
    /\ UNCHANGED <<gen_profile, gen_analysis>>
    /\ UNCHANGED <<execVars, routerVars, apiVars>>

\* step 6: let saved_strategy = self.atlas.create_strategy(strategy).await?;
CreateStrategy ==
    /\ gpc = "create_strategy"
    /\ \E ok \in BOOLEAN :
          IF ok
          THEN /\ gpc' = "gen_returned"
               /\ gen_strategy' = [gen_strategy EXCEPT !.status = "saved"]
          ELSE GenFails
    /\ UNCHANGED <<gen_profile, gen_analysis>>
    /\ UNCHANGED <<execVars, routerVars, apiVars>>

\* generate_strategy has returned; its locals are dropped.
GenerateDone ==
    /\ gpc = "gen_returned"
    /\ gpc' = "idle"
    /\ gen_profile' = NoGenProfile
    /\ gen_analysis' = NoAllocation
    /\ gen_strategy' = NoGenStrategy
    /\ UNCHANGED <<execVars, routerVars, apiVars>>

(***************************************************************************)
(* process_user and report_results.                                        *)
(***************************************************************************)
\* No entry call is in progress.
AllQuiet == pc["user"] = "idle" /\ pc["monitor"] = "sleep"

Fresh(p) ==
    /\ strategy' = [strategy EXCEPT ![p] = NoStrategy]
    /\ idx' = [idx EXCEPT ![p] = 0]
    /\ executed' = [executed EXCEPT ![p] = <<>>]
    /\ failed' = [failed EXCEPT ![p] = <<>>]
    /\ report' = [report EXCEPT ![p] = NoReport]
    /\ ret' = [ret EXCEPT ![p] = "none"]
    /\ status' = [status EXCEPT ![p] = "none"]
    /\ storeCalls' = [storeCalls EXCEPT ![p] = <<>>]
    /\ venueCalls' = [venueCalls EXCEPT ![p] = <<>>]

\* A caller enters process_user.
ProcessUser ==
    /\ AllQuiet
    /\ pc' = [pc EXCEPT !["user"] = "generate"]
    /\ UNCHANGED <<strategy, idx, executed, failed, report, ret, status,
                   storeCalls, venueCalls, crypto_value, stock_value, profile>>
    /\ UNCHANGED <<routerVars, apiVars, genVars>>

\* 1. self.strategy_gen.generate_strategy(user_id).await.context(..)?
\* saved: the strategies the profile store may hand back.
UserGenerateFrom(saved) ==
    /\ pc["user"] = "generate"
    /\ \E out \in {GenerateFailed} \cup saved :
         /\ {prof \in Profiles : IsGenerateOutcome(out, prof, saved)} # {}
         /\ IF out = GenerateFailed
            THEN /\ pc' = [pc EXCEPT !["user"] = "returned"]
                 /\ ret' = [ret EXCEPT !["user"] = "err"]
                 /\ UNCHANGED <<strategy, status>>
            ELSE /\ pc' = [pc EXCEPT !["user"] = "mark_executing"]
                 /\ strategy' = [strategy EXCEPT !["user"] = out]
                 /\ status' = [status EXCEPT !["user"] = "generated"]
                 /\ ret' = ret
    /\ UNCHANGED <<idx, executed, failed, report, storeCalls, venueCalls,
                   crypto_value, stock_value, profile>>
    /\ UNCHANGED <<routerVars, apiVars, genVars>>

UserGenerate == UserGenerateFrom(Strategies)

\* A completion call that reports the strategy failed when an action failed.
StatusAfterCompleteByFailures(rep) ==
    IF rep.total_failed > 0 THEN "failed" ELSE "completed"

\* complete_strategy(&strategy.strategy_id, results_json) is the only call
\* report_results has to end a strategy, whatever the report holds.
StatusAfterComplete(rep) == "completed"

\* The Result of report_results dropped: process_user returns the report.
ProcessUserResultIgnoringReport(ok) == "ok"

\* process_user lines 97-99: `self.report_results(..).await?; Ok(result)`,
\* ok being the Result of the last store call of report_results.
ProcessUserResult(ok) == IF ok THEN "ok" ELSE "err"

\* The goal update made whether or not the strategy has a goal.
AfterCompleteStrategyAlwaysUpdates(ok, s) ==
    IF ok THEN "update_goal_progress" ELSE "returned"

\* Where report_results goes after complete_strategy(..).await?: on Err the
\* `?` returns; on Ok into `if let Some(goal_id) = strategy.goal_id`, and
\* to Ok(()) when the strategy has no goal.
AfterCompleteStrategy(ok, s) ==
    IF ok /\ s.goal_id = "Some" THEN "update_goal_progress" ELSE "returned"

\* report_results: self.atlas.complete_strategy(..).await?
CompleteStrategy ==
    /\ pc["user"] = "complete_strategy"
    /\ \E ok \in BOOLEAN :
        /\ storeCalls' = [storeCalls EXCEPT !["user"] = Append(@, StoreCall("complete_strategy", ok))]
        /\ status' = IF ok
                     THEN [status EXCEPT !["user"] = StatusAfterComplete(report["user"])]
                     ELSE status
        /\ pc' = [pc EXCEPT !["user"] = AfterCompleteStrategy(ok, strategy["user"])]
        /\ ret' = IF AfterCompleteStrategy(ok, strategy["user"]) = "returned"
                  THEN [ret EXCEPT !["user"] = ProcessUserResult(ok)]
                  ELSE ret
    /\ UNCHANGED <<strategy, idx, executed, failed, report, venueCalls,
                   crypto_value, stock_value, profile>>
    /\ UNCHANGED <<routerVars, apiVars, genVars>>

\* report_results: if let Some(goal_id) .. self.atlas.update_goal_progress(..).await?
UpdateGoalProgress ==
    /\ pc["user"] = "update_goal_progress"
    /\ \E ok \in BOOLEAN :
        /\ storeCalls' = [storeCalls EXCEPT !["user"] = Append(@, StoreCall("update_goal_progress", ok))]
        /\ pc' = [pc EXCEPT !["user"] = "returned"]
        /\ ret' = [ret EXCEPT !["user"] = ProcessUserResult(ok)]
    /\ UNCHANGED <<strategy, idx, executed, failed, report, status, venueCalls,
                   crypto_value, stock_value, profile>>
    /\ UNCHANGED <<routerVars, apiVars, genVars>>

\* The caller has the Result of process_user; the call is over and its
\* locals are gone.
UserDone ==
    /\ pc["user"] = "returned"
    /\ ret["user"] \in {"ok", "err"}
    /\ pc' = [pc EXCEPT !["user"] = "idle"]
    /\ Fresh("user")
    /\ UNCHANGED <<crypto_value, stock_value, profile>>
    /\ UNCHANGED <<routerVars, apiVars, genVars>>

(***************************************************************************)
(* Rebalance Monitor: monitor_and_rebalance and calculate_drift.           *)
(* Fractions are exact rationals <<numerator, denominator>>.               *)
(***************************************************************************)
DriftThreshold == <<1, 20>>     \* 0.05

\* json!({"crypto": crypto_value / total}) read back with as_f64().unwrap_or(0.0):
\* 0/0 is NaN, which serde_json stores as null, which reads back as 0.0.
CurrentCrypto(cv, sv) ==
    IF cv + sv = 0 THEN <<0, 1>> ELSE <<cv, cv + sv>>

\* let current_allocation = json!({"crypto": crypto_value / total,
\*                                 "stocks": stock_value / total});
current_allocation(cv, sv) ==
    [crypto |-> CurrentCrypto(cv, sv),
     stocks |-> IF cv + sv = 0 THEN <<0, 1>> ELSE <<sv, cv + sv>>]

\* target.get("crypto").and_then(|v| v.as_f64()).unwrap_or(0.0)
TargetCrypto(target) ==
    IF "crypto" \in DOMAIN target THEN target.crypto ELSE <<0, 1>>

\* (current_crypto - target_crypto).abs()
calculate_drift(current, target) ==
    <<Abs(current[1] * target[2] - target[1] * current[2]), current[2] * target[2]>>

\* a > b for rationals with positive denominators
Greater(a, b) == a[1] * b[2] > b[1] * a[2]
GreaterOrEqual(a, b) == a[1] * b[2] >= b[1] * a[2]

\* The drift against the target of the last active strategy.
DriftOfLastActive(cv, sv, prof) ==
    calculate_drift(CurrentCrypto(cv, sv),
                    TargetCrypto(prof.active_strategies[Len(prof.active_strategies)]
                                     .target_allocation))

\* profile.active_strategies.first(): the drift against the target of the
\* first active strategy.
DriftOf(cv, sv, prof) ==
    calculate_drift(CurrentCrypto(cv, sv),
                    TargetCrypto(prof.active_strategies[1].target_allocation))

NeedsRebalanceInclusive(drift) == GreaterOrEqual(drift, DriftThreshold)

\* if drift > 0.05
NeedsRebalance(drift) == Greater(drift, DriftThreshold)

AnyAutoExecuteActive(prof) ==
    \E i \in 1..Len(prof.goals) :
        prof.goals[i].auto_execute /\ prof.goals[i].status = "active"

\* profile.goals.iter().any(|g| g.auto_execute)
AnyAutoExecute(prof) == \E i \in 1..Len(prof.goals) : prof.goals[i].auto_execute

MonitorLocals(cv, sv, prof) ==
    /\ crypto_value' = cv
    /\ stock_value' = sv
    /\ profile' = prof

TickReturns(r) ==
    /\ pc' = [pc EXCEPT !["monitor"] = "tick_end"]
    /\ ret' = [ret EXCEPT !["monitor"] = r]

\* The loop of the spawned task calls executor.monitor_and_rebalance(user_id).
MonitorTick ==
    /\ AllQuiet
    /\ pc' = [pc EXCEPT !["monitor"] = "get_portfolio_value"]
    /\ UNCHANGED <<strategy, idx, executed, failed, report, ret, status,
                   storeCalls, venueCalls, crypto_value, stock_value, profile>>
    /\ UNCHANGED <<routerVars, apiVars, genVars>>

\* A read whose error is dropped: the tick goes on without the value.
AfterReadIgnoringError(ok, next) == next

\* The `?` after each of the three reads of a tick: on Err the tick returns
\* the error, on Ok it goes on to the next statement.
AfterRead(ok, next) == IF ok THEN next ELSE "tick_end"

ReadReturns(ok, next) ==
    /\ pc' = [pc EXCEPT !["monitor"] = AfterRead(ok, next)]
    /\ ret' = IF AfterRead(ok, next) = "tick_end"
              THEN [ret EXCEPT !["monitor"] = "err"] ELSE ret

\* let crypto_value = self.delt.get_portfolio_value(user_id).await?;
GetPortfolioValue ==
    /\ pc["monitor"] = "get_portfolio_value"
    /\ \/ ReadReturns(FALSE, "get_total_value") /\ UNCHANGED crypto_value
       \/ \E v \in CryptoValues :
            /\ crypto_value' = v
            /\ ReadReturns(TRUE, "get_total_value")
    /\ UNCHANGED <<strategy, idx, executed, failed, report, status, storeCalls,
                   venueCalls, stock_value, profile>>
    /\ UNCHANGED <<routerVars, apiVars, genVars>>

\* let stock_value = self.brokerage.get_total_value().await?;
GetTotalValue ==
    /\ pc["monitor"] = "get_total_value"
    /\ \/ ReadReturns(FALSE, "get_complete_profile") /\ UNCHANGED stock_value
       \/ \E v \in StockValues :
            /\ stock_value' = v
            /\ ReadReturns(TRUE, "get_complete_profile")
    /\ UNCHANGED <<strategy, idx, executed, failed, report, status, storeCalls,
                   venueCalls, crypto_value, profile>>
    /\ UNCHANGED <<routerVars, apiVars, genVars>>

\* let profile = self.atlas.get_complete_profile(user_id).await?;
GetCompleteProfile ==
    /\ pc["monitor"] = "get_complete_profile"
    /\ \/ ReadReturns(FALSE, "check_drift") /\ UNCHANGED profile
       \/ \E prof \in Profiles :
            /\ profile' = prof
            /\ ReadReturns(TRUE, "check_drift")
    /\ UNCHANGED <<strategy, idx, executed, failed, report, status, storeCalls,
                   venueCalls, crypto_value, stock_value>>
    /\ UNCHANGED <<routerVars, apiVars, genVars>>

\* if let Some(active_strategy) = profile.active_strategies.first() {
\*     .. if drift > 0.05 { .. } }  Ok(())
\* Once rebalancing is decided, the balances, the drift and the active
\* strategies are not read again: only profile.goals is (line 295).
CheckDrift ==
    /\ pc["monitor"] = "check_drift"
    /\ IF /\ Len(profile.active_strategies) > 0
          /\ NeedsRebalance(DriftOf(crypto_value, stock_value, profile))
       THEN /\ pc' = [pc EXCEPT !["monitor"] = "generate"]
            /\ ret' = ret
            /\ MonitorLocals(NoValue, NoValue, [profile EXCEPT !.active_strategies = <<>>])
       ELSE /\ TickReturns("ok")
            /\ UNCHANGED <<crypto_value, stock_value, profile>>
    /\ UNCHANGED <<strategy, idx, executed, failed, report, status, storeCalls,
                   venueCalls>>
    /\ UNCHANGED <<routerVars, apiVars, genVars>>

\* let rebalance_strategy = self.strategy_gen.generate_strategy(user_id).await?;
\* saved: the strategies the profile store may hand back.
MonitorGenerateFrom(saved) ==
    /\ pc["monitor"] = "generate"
    /\ \E out \in GenerateOutcomes(profile, saved) :
         IF out = GenerateFailed
         THEN /\ TickReturns("err")
              /\ UNCHANGED <<strategy, status>>
         ELSE /\ pc' = [pc EXCEPT !["monitor"] = "check_auto_execute"]
              /\ strategy' = [strategy EXCEPT !["monitor"] = out]
              /\ status' = [status EXCEPT !["monitor"] = "generated"]
              /\ ret' = ret
    /\ UNCHANGED <<idx, executed, failed, report, storeCalls, venueCalls,
                   crypto_value, stock_value, profile>>
    /\ UNCHANGED <<routerVars, apiVars, genVars>>

MonitorGenerate == MonitorGenerateFrom(Strategies)

MonitorGenerateShort == MonitorGenerateFrom(ShortStrategies)

\* if profile.goals.iter().any(|g| g.auto_execute) { execute_strategy } else { notify }
\* The monitor's locals are dead once control is inside execute_strategy.
CheckAutoExecute ==
    /\ pc["monitor"] = "check_auto_execute"
    /\ IF AnyAutoExecute(profile)
       THEN /\ pc' = [pc EXCEPT !["monitor"] = "mark_executing"]
            /\ ret' = ret
            /\ MonitorLocals(NoValue, NoValue, NoProfile)
       ELSE /\ TickReturns("ok")
            /\ UNCHANGED <<crypto_value, stock_value, profile>>
    /\ UNCHANGED <<strategy, idx, executed, failed, report, status, storeCalls,
                   venueCalls>>
    /\ UNCHANGED <<routerVars, apiVars, genVars>>

\* Where the task goes after the match on the tick's Result: both arms only
\* log, and the loop body ends in sleep(24h).
AfterTickStopOnError(r) == IF r = "err" THEN "terminated" ELSE "sleep"

AfterTick(r) == "sleep"

\* match .. { Ok(_) => info!(..), Err(e) => error!(..) } then sleep(24h) and loop;
\* nothing of the tick survives it.
MonitorSleep ==
    /\ pc["monitor"] = "tick_end"
    /\ ret["monitor"] \in {"ok", "err"}
    /\ pc' = [pc EXCEPT !["monitor"] = AfterTick(ret["monitor"])]
    /\ Fresh("monitor")
    /\ MonitorLocals(NoValue, NoValue, NoProfile)
    /\ UNCHANGED <<routerVars, apiVars, genVars>>


(***************************************************************************)
(* process_user with the profile generate_strategy read kept in view, to   *)
(* relate what process_user does to the goals of the user.                 *)
(***************************************************************************)
\* The profiles of process_user's user: generate_strategy reads the goals.
GoalProfiles == { prof \in Profiles : prof.active_strategies = <<>> }

\* An approval step that lets only auto_execute users through.
AfterGenerateWithApproval(prof) ==
    IF AnyAutoExecute(prof) THEN "mark_executing" ELSE "returned"

\* process_user lines 86-94: "2. Wait for user approval" only logs; the
\* approval poll is skipped and step 3, execute_strategy, follows.
AfterGenerate(prof) == "mark_executing"

\* 1. generate_strategy for a user with the profile prof, 2. the approval
\* comment, and the entry of 3. execute_strategy.
UserGenerateForProfile ==
    /\ pc["user"] = "generate"
    /\ \E prof \in GoalProfiles, out \in {GenerateFailed} \cup ShortStrategies :
         /\ IsGenerateOutcome(out, prof, ShortStrategies)
         /\ profile' = prof
         /\ IF out = GenerateFailed
            THEN /\ pc' = [pc EXCEPT !["user"] = "returned"]
                 /\ ret' = [ret EXCEPT !["user"] = "err"]
                 /\ UNCHANGED <<strategy, status>>
            ELSE /\ pc' = [pc EXCEPT !["user"] = AfterGenerate(prof)]
                 /\ strategy' = [strategy EXCEPT !["user"] = out]
                 /\ status' = [status EXCEPT !["user"] = "generated"]
                 /\ ret' = IF AfterGenerate(prof) = "returned"
                           THEN [ret EXCEPT !["user"] = "err"] ELSE ret
    /\ UNCHANGED <<idx, executed, failed, report, storeCalls, venueCalls,
                   crypto_value, stock_value>>
    /\ UNCHANGED <<routerVars, apiVars, genVars>>


(***************************************************************************)
(* process_user and the background task running at the same time.  The     *)
(* task is spawned on the runtime (tokio::spawn) and process_user is an     *)
(* async method on a shared &self: each of them advances whenever it is     *)
(* polled.  The strategies are short lists of venue-bound actions.          *)
(***************************************************************************)
ConcActionPool == {a \in ActionPool : a.asset_class \in {"crypto", "stocks"}}

ConcStrategies ==
    [actions : SeqsUpTo(ConcActionPool, MaxConcActions), goal_id : {"None", "Some"}]

\* A mutation of MayEnter: an execution may only start while no other entry
\* call is in progress.
MayEnterExclusive(p) == \A q \in Procs \ {p} : pc[q] \in {"idle", "sleep"}

\* What process_user and the monitor's tick wait for before they start:
\* nothing.  ApolloExecutor holds no lock, and neither path reads the
\* strategy's status or the other's progress before execute_strategy.
MayEnter(p) == TRUE

\* A caller enters process_user, whatever the monitor is doing.
ProcessUserConc ==
    /\ pc["user"] = "idle"
    /\ MayEnter("user")
    /\ pc' = [pc EXCEPT !["user"] = "generate"]
    /\ UNCHANGED <<strategy, idx, executed, failed, report, ret, status,
                   storeCalls, venueCalls, crypto_value, stock_value, profile>>
    /\ UNCHANGED <<routerVars, apiVars, genVars>>

UserGenerateConc == UserGenerateFrom(ConcStrategies)

\* A tick of the monitor up to its call of execute_strategy, in one step:
\* the three reads, the drift check, generate_strategy and the auto_execute
\* check touch nothing but the tick's own locals.  The tick either returns
\* (a read failed, there is no drift, generation failed, no goal is
\* auto_execute) or stands at the entry of execute_strategy.
MonitorTickConc ==
    /\ pc["monitor"] = "sleep"
    /\ MayEnter("monitor")
    /\ \/ \E r \in {"ok", "err"} : TickReturns(r) /\ UNCHANGED <<strategy, status>>
       \/ \E out \in ConcStrategies :
             /\ {prof \in Profiles :
                   /\ Len(prof.active_strategies) > 0
                   /\ \E cv \in CryptoValues, sv \in StockValues :
                         NeedsRebalance(DriftOf(cv, sv, prof))
                   /\ IsGenerateOutcome(out, prof, ConcStrategies)
                   /\ AnyAutoExecute(prof)} # {}
             /\ strategy' = [strategy EXCEPT !["monitor"] = out]
             /\ status' = [status EXCEPT !["monitor"] = "generated"]
             /\ pc' = [pc EXCEPT !["monitor"] = "mark_executing"]
             /\ ret' = ret
    /\ UNCHANGED <<idx, executed, failed, report, storeCalls, venueCalls,
                   crypto_value, stock_value, profile>>
    /\ UNCHANGED <<routerVars, apiVars, genVars>>


(***************************************************************************)
(* Query router (src/router.rs) and the HTTP query endpoint (src/api.rs).  *)
(* Strings are sequences of characters, so that to_lowercase, starts_with  *)
(* and contains are computed as the code computes them.                    *)
(***************************************************************************)
S_show == <<"s", "h", "o", "w">>
S_find == <<"f", "i", "n", "d">>
S_summarize == <<"s", "u", "m", "m", "a", "r", "i", "z", "e">>
S_analyze == <<"a", "n", "a", "l", "y", "z", "e">>
S_create == <<"c", "r", "e", "a", "t", "e">>
S_generate == <<"g", "e", "n", "e", "r", "a", "t", "e">>
S_execute == <<"e", "x", "e", "c", "u", "t", "e">>
S_trade == <<"t", "r", "a", "d", "e">>
S_email == <<"e", "m", "a", "i", "l">>
S_meeting == <<"m", "e", "e", "t", "i", "n", "g">>
S_transaction == <<"t", "r", "a", "n", "s", "a", "c", "t", "i", "o", "n">>
S_document == <<"d", "o", "c", "u", "m", "e", "n", "t">>
S_code == <<"c", "o", "d", "e">>
S_health == <<"h", "e", "a", "l", "t", "h">>
S_fitness == <<"f", "i", "t", "n", "e", "s", "s">>
S_my == <<"m", "y">>
S_Show == <<"S", "h", "o", "w">>
S_ANALYZE == <<"A", "N", "A", "L", "Y", "Z", "E">>
S_EMAIL == <<"E", "M", "A", "I", "L">>
S_contact == <<"c", "o", "n", "t", "a", "c", "t">>
S_transactions == <<"t", "r", "a", "n", "s", "a", "c", "t", "i", "o", "n", "s">>

UpperChars == <<"A","B","C","D","E","F","G","H","I","J","K","L","M",
                "N","O","P","Q","R","S","T","U","V","W","X","Y","Z">>
LowerChars == <<"a","b","c","d","e","f","g","h","i","j","k","l","m",
                "n","o","p","q","r","s","t","u","v","w","x","y","z">>

LowerChar(c) ==
    IF \E i \in 1..26 : UpperChars[i] = c
    THEN LowerChars[CHOOSE i \in 1..26 : UpperChars[i] = c]
    ELSE c

to_lowercase(str) == [i \in 1..Len(str) |-> LowerChar(str[i])]

starts_with(str, prefix) ==
    /\ Len(str) >= Len(prefix)
    /\ SubSeq(str, 1, Len(prefix)) = prefix

contains(str, sub) ==
    \E i \in 0..(Len(str) - Len(sub)) : SubSeq(str, i + 1, i + Len(sub)) = sub

SeqContains(seq, x) == \E i \in 1..Len(seq) : seq[i] = x

\* Inputs: queries are words joined by single spaces.
Vocabulary == {S_show, S_analyze, S_my, S_transactions, S_email, S_meeting}
DomainPool == {S_email, S_meeting, S_transaction}

RECURSIVE Join(_)
Join(ws) ==
    IF Len(ws) = 0 THEN <<>>
    ELSE IF Len(ws) = 1 THEN ws[1]
    ELSE ws[1] \o <<" ">> \o Join(Tail(ws))

Queries == { Join(ws) : ws \in SeqsUpTo(Vocabulary, MaxWords) }
Contexts == SeqsUpTo(DomainPool, MaxDomains)

\* Inputs of a direct analyze_intent call.  The first word of a query is any
\* word of the vocabulary: every word a prefix rule tests, words in upper
\* case, and words no rule tests.  The words after it are the names of data
\* types, in lower and upper case, and words the rules test only at the
\* start.  Contexts declare a data type once, twice or in upper case.
IntentVocabulary == {S_show, S_find, S_summarize, S_analyze, S_create, S_generate,
                     S_execute, S_trade, S_Show, S_ANALYZE,
                     S_my, S_email, S_EMAIL, S_meeting}
IntentLaterWords == {S_my, S_email, S_EMAIL, S_meeting, S_show}
IntentDomainPool == {S_email, S_meeting, S_EMAIL}
IntentQueries ==
    {<<>>} \cup
    { Join(<<w>> \o ws) : w \in IntentVocabulary,
                           ws \in SeqsUpTo(IntentLaterWords, MaxIntentWords - 1) }
IntentContexts == SeqsUpTo(IntentDomainPool, MaxDomains)

NoRequest == [query |-> <<>>, available_data_types |-> <<>>, set |-> FALSE]
NoIntent == [intent_type |-> "unset", data_types |-> <<>>, requires_atlas_data |-> FALSE]
NoPlan == [primary_agent |-> "unset", supporting_agents |-> <<>>,
           execution_strategy |-> "unset"]
NoResponse == [answer |-> "unset"]

\* pub enum AgentType
AgentType ==
    {"CodeAssistant", "CodeEditor",
     "EmailAgent", "CalendarAgent",
     "DocumentParser", "KnowledgeAgent", "Sage",
     "TextAnalyzer", "Quant",
     "VisionAgent", "AudioAgent", "Reel", "Harmonia",
     "LedgerAgent", "Deduct",
     "Juris", "Accord",
     "Closer", "Amplify", "Talent", "GrantAgent",
     "Shield", "Sentinel",
     "WebScraper", "Polyglot",
     "Lexicon", "CulturePulse",
     "SchemaAgent", "RouterAgent",
     "TradingAgent", "PortfolioAnalyzer", "RiskManager", "MarketAnalyzer",
     "StrategyGenerator", "ExecutionAgent",
     "HealthAgent", "TravelAgent", "FitnessAgent", "NutritionAgent",
     "SleepAgent", "MentalHealthAgent"}

\* enum IntentType
IntentType == {"Search", "Summarize", "Analyze", "Generate", "Execute", "Conversation"}

\* The data types of the intents of a direct select_agents call: the eight
\* the selection knows and one it does not.
SelectDomains == {S_email, S_meeting, S_transaction, S_document,
                  S_code, S_trade, S_health, S_fitness, S_contact}

\* struct QueryIntent (entities is never read).  A data type of the intent
\* is a substring of the query, which decides requires_atlas_data.
Intents ==
    { [intent_type |-> t, data_types |-> dts,
       requires_atlas_data |->
           \E i \in 1..Len(dts) :
               dts[i] \in {S_email, S_meeting, S_transaction, S_document}] :
        t \in IntentType, dts \in SeqsUpTo(SelectDomains, MaxDataTypes) }

\* pub enum ExecutionStrategy
ExecutionStrategy == {"Single", "Parallel", "Sequential", "Conditional"}

\* The agents the plans of a direct execute_agents call are drawn from.
AgentPool == {a \in AgentType :
                a \in {"EmailAgent", "CalendarAgent", "LedgerAgent", "KnowledgeAgent"}}

\* pub struct AgentPlan (estimated_time_ms is never read)
Plans ==
    [primary_agent : AgentPool,
     supporting_agents : SeqsUpTo(AgentPool, MaxSupporting),
     execution_strategy : ExecutionStrategy]

\* The substring test on the query as it was typed.
extract_data_types_case_sensitive(query, context) ==
    LET Mentioned(data_type) == contains(query, data_type)
    IN  SelectSeq(context, Mentioned)

\* fn extract_data_types
extract_data_types(query, context) ==
    LET query_lower == to_lowercase(query)
        Mentioned(data_type) == contains(query_lower, data_type)
    IN  SelectSeq(context, Mentioned)

\* fn requires_atlas_data
requires_atlas_data(query) ==
    LET query_lower == to_lowercase(query)
    IN  \/ contains(query_lower, S_email)
        \/ contains(query_lower, S_meeting)
        \/ contains(query_lower, S_transaction)
        \/ contains(query_lower, S_document)

\* The prefix tests on the query as it was typed.
analyze_intent_case_sensitive(query, context) ==
    LET intent_type ==
            IF starts_with(query, S_show) \/ starts_with(query, S_find)
            THEN "Search"
            ELSE IF starts_with(query, S_summarize) THEN "Summarize"
            ELSE IF starts_with(query, S_analyze) THEN "Analyze"
            ELSE IF starts_with(query, S_create) \/ starts_with(query, S_generate)
            THEN "Generate"
            ELSE IF starts_with(query, S_execute) \/ starts_with(query, S_trade)
            THEN "Execute"
            ELSE "Conversation"
    IN  [intent_type |-> intent_type,
         data_types |-> extract_data_types(query, context),
         requires_atlas_data |-> requires_atlas_data(query)]

\* async fn analyze_intent
analyze_intent(query, context) ==
    LET query_lower == to_lowercase(query)
        intent_type ==
            IF starts_with(query_lower, S_show) \/ starts_with(query_lower, S_find)
            THEN "Search"
            ELSE IF starts_with(query_lower, S_summarize) THEN "Summarize"
            ELSE IF starts_with(query_lower, S_analyze) THEN "Analyze"
            ELSE IF starts_with(query_lower, S_create) \/ starts_with(query_lower, S_generate)
            THEN "Generate"
            ELSE IF starts_with(query_lower, S_execute) \/ starts_with(query_lower, S_trade)
            THEN "Execute"
            ELSE "Conversation"
    IN  [intent_type |-> intent_type,
         data_types |-> extract_data_types(query, context),
         requires_atlas_data |-> requires_atlas_data(query)]

\* The agent of the data type the intent lists first among those of the table.
select_primary_agent_first_listed(in) ==
    LET Known == [dt \in {S_email, S_meeting, S_transaction, S_document,
                          S_code, S_trade, S_health, S_fitness} |->
                    CASE dt = S_email -> "EmailAgent"
                      [] dt = S_meeting -> "CalendarAgent"
                      [] dt = S_transaction -> "LedgerAgent"
                      [] dt = S_document -> "DocumentParser"
                      [] dt = S_code -> "CodeEditor"
                      [] dt = S_trade -> "TradingAgent"
                      [] dt = S_health -> "HealthAgent"
                      [] OTHER -> "FitnessAgent"]
        hits == SelectSeq(in.data_types, LAMBDA dt : dt \in DOMAIN Known)
    IN  IF hits = <<>> THEN "KnowledgeAgent" ELSE Known[hits[1]]

\* fn select_primary_agent
select_primary_agent(in) ==
    IF SeqContains(in.data_types, S_email) THEN "EmailAgent"
    ELSE IF SeqContains(in.data_types, S_meeting) THEN "CalendarAgent"
    ELSE IF SeqContains(in.data_types, S_transaction) THEN "LedgerAgent"
    ELSE IF SeqContains(in.data_types, S_document) THEN "DocumentParser"
    ELSE IF SeqContains(in.data_types, S_code) THEN "CodeEditor"
    ELSE IF SeqContains(in.data_types, S_trade) THEN "TradingAgent"
    ELSE IF SeqContains(in.data_types, S_health) THEN "HealthAgent"
    ELSE IF SeqContains(in.data_types, S_fitness) THEN "FitnessAgent"
    ELSE "KnowledgeAgent"

\* The match of select_supporting_agents: the agents pushed for one data type.
SupportingFor(data_type) ==
    IF data_type = S_email THEN <<"EmailAgent">>
    ELSE IF data_type = S_meeting THEN <<"CalendarAgent">>
    ELSE IF data_type = S_transaction THEN <<"LedgerAgent">>
    ELSE IF data_type = S_document THEN <<"DocumentParser">>
    ELSE <<>>

\* Vec::dedup: removes consecutive repeated elements.
RECURSIVE dedup(_)
dedup(v) ==
    IF Len(v) <= 1 THEN v
    ELSE IF v[1] = v[2] THEN dedup(Tail(v))
    ELSE <<v[1]>> \o dedup(Tail(v))

RECURSIVE PushAll(_)
PushAll(data_types) ==
    IF Len(data_types) = 0 THEN <<>>
    ELSE SupportingFor(data_types[1]) \o PushAll(Tail(data_types))

\* fn select_supporting_agents
select_supporting_agents(in) == dedup(PushAll(in.data_types))

\* The match on the intent type without the is_empty test before it.
determine_strategy_unguarded(in, supporting_agents) ==
    CASE in.intent_type = "Summarize" -> "Parallel"
      [] in.intent_type = "Analyze" -> "Sequential"
      [] OTHER -> "Parallel"

\* fn determine_strategy
determine_strategy(in, supporting_agents) ==
    IF Len(supporting_agents) = 0 THEN "Single"
    ELSE CASE in.intent_type = "Summarize" -> "Parallel"
           [] in.intent_type = "Analyze" -> "Sequential"
           [] OTHER -> "Parallel"

\* async fn select_agents
select_agents(in) ==
    LET supporting_agents == select_supporting_agents(in)
    IN  [primary_agent |-> select_primary_agent(in),
         supporting_agents |-> supporting_agents,
         execution_strategy |-> determine_strategy(in, supporting_agents)]

AgentResult(agent) == [agent |-> agent, data |-> "payload", confidence |-> 80]

\* A mutation of PushResult: the result is put in front of the list.
PushResultFront(rs, agent) == <<AgentResult(agent)>> \o rs

\* results.push(result) in execute_agents (lines 282, 289, 295).
PushResult(rs, agent) == Append(rs, AgentResult(agent))

\* struct AgentResult, for a direct synthesize_response call: any agent of
\* the pool with one of two payloads.
ResultLists ==
    SeqsUpTo([agent : AgentPool, data : {"payload", "other payload"}, confidence : {80}],
             MaxResults)

\* The payloads collected from the last result to the first.
synthesize_response_data_reversed(rs, primary_agent) ==
    [answer |-> "Processed query",
     data |-> [i \in 1..Len(rs) |-> rs[Len(rs) + 1 - i].data],
     agents_used |-> [i \in 1..Len(rs) |-> rs[i].agent],
     confidence |-> 85]

\* async fn synthesize_response (confidence in hundredths)
synthesize_response(rs, primary_agent) ==
    [answer |-> "Processed query",
     data |-> [i \in 1..Len(rs) |-> rs[i].data],
     agents_used |-> [i \in 1..Len(rs) |-> rs[i].agent],
     confidence |-> 85]


(***************************************************************************)
(* route_query step by step.  execute_agent is the call to a handler: it   *)
(* returns Result<AgentResult>, and both outcomes are explored.            *)
(***************************************************************************)
Outcome(agent, ok) == [agent |-> agent, ok |-> ok]

RunsSupporting(pl) == pl.execution_strategy \in {"Parallel", "Sequential"}

\* Where execute_agents goes after the primary agent's Result:
\* `self.execute_agent(&plan.primary_agent, request).await?`
AfterPrimaryIgnoringFailure(ok, pl) ==
    IF RunsSupporting(pl) THEN "execute_supporting" ELSE "agents_done"

AfterPrimary(ok, pl) ==
    IF ~ok THEN "agents_failed"
    ELSE IF RunsSupporting(pl) THEN "execute_supporting" ELSE "agents_done"

\* Where the loop goes after a supporting agent's Result:
\* `let result = self.execute_agent(agent, request).await?;`
AfterSupporting(ok) == IF ok THEN "execute_supporting" ELSE "agents_failed"

\* "agents": 42 in the body of the health answer
HealthAgents == 42

NoAgentsReply == [sent |-> FALSE, total_agents |-> 0, agents |-> <<>>]
NoHealthReply == [sent |-> FALSE, status |-> "unset", agents |-> 0]

\* let agents = vec![agent_info(AgentType::CodeAssistant, ..), ..] in
\* list_agents: the agent types of the entries, in the order of the vec.
AgentInfos ==
    <<"CodeAssistant", "CodeEditor",
      "EmailAgent", "CalendarAgent",
      "DocumentParser", "KnowledgeAgent", "Sage",
      "TextAnalyzer", "Quant",
      "VisionAgent", "AudioAgent", "Reel", "Harmonia",
      "LedgerAgent", "Deduct",
      "Juris", "Accord",
      "Closer", "Amplify", "Talent", "GrantAgent",
      "Shield", "Sentinel",
      "WebScraper", "Polyglot",
      "Lexicon", "CulturePulse",
      "SchemaAgent", "RouterAgent",
      "TradingAgent", "PortfolioAnalyzer", "RiskManager", "MarketAnalyzer",
      "StrategyGenerator", "ExecutionAgent",
      "HealthAgent", "TravelAgent", "FitnessAgent", "NutritionAgent",
      "SleepAgent", "MentalHealthAgent">>

\* json!({"total_agents": agents.len(), "agents": agents})
list_agents == [sent |-> TRUE, total_agents |-> Len(AgentInfos), agents |-> AgentInfos]

\* json!({"status": "healthy", .., "agents": 42})
health == [sent |-> TRUE, status |-> "healthy", agents |-> HealthAgents]

\* GET /apollo/agents
ListAgents ==
    /\ rpc = "idle"
    /\ agents_reply' = list_agents
    /\ rpc' = "done"
    /\ UNCHANGED <<request, intent, plan, sup_idx, outcomes, results, dispatch,
                   synth_calls, response, route_result, http, health_reply>>
    /\ UNCHANGED <<execVars, genVars>>

\* GET /apollo/health
Health ==
    /\ rpc = "idle"
    /\ health_reply' = health
    /\ rpc' = "done"
    /\ UNCHANGED <<request, intent, plan, sup_idx, outcomes, results, dispatch,
                   synth_calls, response, route_result, http, agents_reply>>
    /\ UNCHANGED <<execVars, genVars>>

\* POST /apollo/query receives a QueryRequest and calls route_query.
Query ==
    /\ rpc = "idle"
    /\ \E q \in Queries, c \in Contexts :
         request' = [query |-> q, available_data_types |-> c, set |-> TRUE]
    /\ rpc' = "analyze_intent"
    /\ UNCHANGED <<intent, plan, sup_idx, outcomes, results, dispatch,
                   synth_calls, response, route_result, http>>
    /\ UNCHANGED <<execVars, apiVars, genVars>>

\* The answer has been sent; the request and all it created are dropped.
QueryDone ==
    /\ rpc = "done"
    /\ rpc' = "idle"
    /\ request' = NoRequest
    /\ intent' = NoIntent
    /\ plan' = NoPlan
    /\ sup_idx' = 0
    /\ outcomes' = <<>>
    /\ results' = <<>>
    /\ dispatch' = "none"
    /\ synth_calls' = 0
    /\ response' = NoResponse
    /\ route_result' = "none"
    /\ http' = "none"
    /\ agents_reply' = NoAgentsReply
    /\ health_reply' = NoHealthReply
    /\ UNCHANGED <<execVars, genVars>>

\* 1. let intent = self.analyze_intent(..).await?;   (always Ok)
AnalyzeIntent ==
    /\ rpc = "analyze_intent"
    /\ intent' = analyze_intent(request.query, request.available_data_types)
    /\ rpc' = "select_agents"
    /\ UNCHANGED <<request, plan, sup_idx, outcomes, results, dispatch,
                   synth_calls, response, route_result, http>>
    /\ UNCHANGED <<execVars, apiVars, genVars>>

\* 2. let plan = self.select_agents(..).await?;      (always Ok)
SelectAgents ==
    /\ rpc = "select_agents"
    /\ plan' = select_agents(intent)
    /\ rpc' = "execute_primary"
    /\ UNCHANGED <<request, intent, sup_idx, outcomes, results, dispatch,
                   synth_calls, response, route_result, http>>
    /\ UNCHANGED <<execVars, apiVars, genVars>>

\* async fn analyze_intent(&self, query: &str, context: &AtlasContext)
\* called with a query and a context ..
AnalyzeIntentCall ==
    /\ rpc = "idle"
    /\ \E q \in IntentQueries, c \in IntentContexts :
         request' = [query |-> q, available_data_types |-> c, set |-> TRUE]
    /\ rpc' = "analyze_intent_call"
    /\ UNCHANGED <<intent, plan, sup_idx, outcomes, results, dispatch,
                   synth_calls, response, route_result, http>>
    /\ UNCHANGED <<execVars, apiVars, genVars>>

\* .. which returns Ok(QueryIntent {..}); the function has no Err path.
AnalyzeIntentReturn ==
    /\ rpc = "analyze_intent_call"
    /\ intent' = analyze_intent(request.query, request.available_data_types)
    /\ rpc' = "done"
    /\ UNCHANGED <<request, plan, sup_idx, outcomes, results, dispatch,
                   synth_calls, response, route_result, http>>
    /\ UNCHANGED <<execVars, apiVars, genVars>>

\* async fn select_agents(&self, intent: &QueryIntent, context: &AtlasContext)
\* called with an intent: any intent type and any list of data types.  The
\* context is not read.
SelectAgentsCall ==
    /\ rpc = "idle"
    /\ intent' \in Intents
    /\ rpc' = "select_agents_call"
    /\ UNCHANGED <<request, plan, sup_idx, outcomes, results, dispatch,
                   synth_calls, response, route_result, http>>
    /\ UNCHANGED <<execVars, apiVars, genVars>>

\* .. which returns Ok(AgentPlan {..}).
SelectAgentsReturn ==
    /\ rpc = "select_agents_call"
    /\ plan' = select_agents(intent)
    /\ rpc' = "done"
    /\ UNCHANGED <<request, intent, sup_idx, outcomes, results, dispatch,
                   synth_calls, response, route_result, http>>
    /\ UNCHANGED <<execVars, apiVars, genVars>>

\* async fn execute_agents(&self, plan: &AgentPlan, request: &QueryRequest)
\* called with a plan: any primary agent, any list of supporting agents and
\* any of the four execution strategies, whether or not select_agents can
\* build that plan.  The request is only handed on to the agents.
ExecuteAgentsCall ==
    /\ rpc = "idle"
    /\ \E pl \in Plans : plan' = pl
    /\ rpc' = "execute_primary"
    /\ UNCHANGED <<request, intent, sup_idx, outcomes, results, dispatch,
                   synth_calls, response, route_result, http>>
    /\ UNCHANGED <<execVars, apiVars, genVars>>

\* execute_agents: the primary agent.
ExecutePrimary ==
    /\ rpc = "execute_primary"
    /\ \E ok \in BOOLEAN :
        /\ outcomes' = Append(outcomes, Outcome(plan.primary_agent, ok))
        /\ results' = IF ok THEN PushResult(results, plan.primary_agent) ELSE results
        /\ rpc' = AfterPrimary(ok, plan)
    /\ UNCHANGED <<request, intent, plan, sup_idx, dispatch,
                   synth_calls, response, route_result, http>>
    /\ UNCHANGED <<execVars, apiVars, genVars>>

\* execute_agents: one iteration of `for agent in &plan.supporting_agents`
\* (the Parallel and the Sequential arm hold the same loop), in two steps.
\* First `self.execute_agent(agent, request)` is called for the next agent
\* of the list and awaited: the invocation of supporting_agents[sup_idx + 1]
\* is in flight and the loop is suspended at the `.await` ..
InvokeSupporting ==
    /\ rpc = "execute_supporting"
    /\ sup_idx < Len(plan.supporting_agents)
    /\ rpc' = "await_supporting"
    /\ UNCHANGED <<request, intent, plan, sup_idx, outcomes, results, dispatch,
                   synth_calls, response, route_result, http>>
    /\ UNCHANGED <<execVars, apiVars, genVars>>

\* A loop that walks the supporting list from its end.
NextSupportingReversed(pl, done) ==
    pl.supporting_agents[Len(pl.supporting_agents) - done]

\* `for agent in &plan.supporting_agents`: the agent of the iteration that
\* follows `done` completed iterations.
NextSupporting(pl, done) == pl.supporting_agents[done + 1]

\* .. then the invocation completes with its Result: `?` and results.push.
SupportingReturns ==
    /\ rpc = "await_supporting"
    /\ LET agent == NextSupporting(plan, sup_idx)
       IN  \E ok \in BOOLEAN :
            /\ outcomes' = Append(outcomes, Outcome(agent, ok))
            /\ results' = IF ok THEN PushResult(results, agent) ELSE results
            /\ sup_idx' = sup_idx + 1
            /\ rpc' = AfterSupporting(ok)
    /\ UNCHANGED <<request, intent, plan, dispatch,
                   synth_calls, response, route_result, http>>
    /\ UNCHANGED <<execVars, apiVars, genVars>>

\* execute_agents returns Ok(results) ..
ExecuteAgentsOk ==
    /\ \/ rpc = "agents_done"
       \/ rpc = "execute_supporting" /\ sup_idx >= Len(plan.supporting_agents)
    /\ dispatch' = "ok"
    /\ rpc' = "synthesize"
    /\ UNCHANGED <<request, intent, plan, sup_idx, outcomes, results,
                   synth_calls, response, route_result, http>>
    /\ UNCHANGED <<execVars, apiVars, genVars>>

\* .. or the error of a `?`, which route_query returns through its own `?`.
ExecuteAgentsErr ==
    /\ rpc = "agents_failed"
    /\ dispatch' = "err"
    /\ route_result' = "err"
    /\ rpc' = "respond"
    /\ UNCHANGED <<request, intent, plan, sup_idx, outcomes, results,
                   synth_calls, response, http>>
    /\ UNCHANGED <<execVars, apiVars, genVars>>

\* 4. let response = self.synthesize_response(..).await?;  Ok(response)
Synthesize ==
    /\ rpc = "synthesize"
    /\ synth_calls' = synth_calls + 1
    /\ response' = synthesize_response(results, plan.primary_agent)
    /\ route_result' = "ok"
    /\ rpc' = "respond"
    /\ UNCHANGED <<request, intent, plan, sup_idx, outcomes, results, dispatch, http>>
    /\ UNCHANGED <<execVars, apiVars, genVars>>

\* async fn synthesize_response(&self, query_id, query, results, primary_agent,
\* execution_time_ms) called with any list of results ..
SynthesizeCall ==
    /\ rpc = "idle"
    /\ results' \in ResultLists
    /\ rpc' = "synthesize_call"
    /\ UNCHANGED <<request, intent, plan, sup_idx, outcomes, dispatch,
                   synth_calls, response, route_result, http>>
    /\ UNCHANGED <<execVars, apiVars, genVars>>

\* .. and any primary agent, which the function does not read; it returns
\* Ok(ApolloResponse {..}).
SynthesizeReturn ==
    /\ rpc = "synthesize_call"
    /\ \E primary_agent \in AgentPool :
         response' = synthesize_response(results, primary_agent)
    /\ synth_calls' = synth_calls + 1
    /\ rpc' = "done"
    /\ UNCHANGED <<request, intent, plan, sup_idx, outcomes, results, dispatch,
                   route_result, http>>
    /\ UNCHANGED <<execVars, apiVars, genVars>>

\* api.rs query: .map_err(|_| StatusCode::INTERNAL_SERVER_ERROR)?; Ok(Json(response))
HttpAnswer(rr) == IF rr = "ok" THEN "200 body" ELSE "500"

Respond ==
    /\ rpc = "respond"
    /\ http' = HttpAnswer(route_result)
    /\ rpc' = "done"
    /\ UNCHANGED <<request, intent, plan, sup_idx, outcomes, results, dispatch,
                   synth_calls, response, route_result>>
    /\ UNCHANGED <<execVars, apiVars, genVars>>

(***************************************************************************)
(* Specifications.                                                         *)
(***************************************************************************)
Init ==
    /\ pc = [p \in Procs |-> IF p = "user" THEN "idle" ELSE "sleep"]
    /\ strategy = [p \in Procs |-> NoStrategy]
    /\ idx = [p \in Procs |-> 0]
    /\ executed = [p \in Procs |-> <<>>]
    /\ failed = [p \in Procs |-> <<>>]
    /\ report = [p \in Procs |-> NoReport]
    /\ ret = [p \in Procs |-> "none"]
    /\ status = [p \in Procs |-> "none"]
    /\ storeCalls = [p \in Procs |-> <<>>]
    /\ venueCalls = [p \in Procs |-> <<>>]
    /\ crypto_value = NoValue
    /\ stock_value = NoValue
    /\ profile = NoProfile
    /\ rpc = "idle"
    /\ request = NoRequest
    /\ intent = NoIntent
    /\ plan = NoPlan
    /\ sup_idx = 0
    /\ outcomes = <<>>
    /\ results = <<>>
    /\ dispatch = "none"
    /\ synth_calls = 0
    /\ response = NoResponse
    /\ route_result = "none"
    /\ http = "none"
    /\ agents_reply = NoAgentsReply
    /\ health_reply = NoHealthReply
    /\ gpc = "idle"
    /\ gen_profile = NoGenProfile
    /\ gen_analysis = NoAllocation
    /\ gen_strategy = NoGenStrategy

\* The executor, one entry call at a time (AllQuiet): process_user and the
\* monitor share no variable, so their steps commute.
Next ==
    \/ ProcessUser
    \/ UserGenerate
    \/ CompleteStrategy
    \/ UpdateGoalProgress
    \/ UserDone
    \/ MonitorTick
    \/ GetPortfolioValue
    \/ GetTotalValue
    \/ GetCompleteProfile
    \/ CheckDrift
    \/ MonitorGenerate
    \/ CheckAutoExecute
    \/ MonitorSleep
    \/ \E p \in Procs : MarkExecuting(p)
    \/ \E p \in Procs : ExecuteActionStep(p)
    \/ \E p \in Procs : ExecuteStrategyReturn(p)

Spec == Init /\ [][Next]_vars

\* The query path.
RouterNext ==
    \/ Query
    \/ AnalyzeIntent
    \/ SelectAgents
    \/ ExecutePrimary
    \/ InvokeSupporting
    \/ SupportingReturns
    \/ ExecuteAgentsOk
    \/ ExecuteAgentsErr
    \/ Synthesize
    \/ Respond
    \/ QueryDone
    \/ ListAgents
    \/ Health

RouterSpec == Init /\ [][RouterNext]_vars

\* execute_agents on its own, called with any plan of the AgentPlan type.
DispatchNext ==
    \/ ExecuteAgentsCall
    \/ ExecutePrimary
    \/ InvokeSupporting
    \/ SupportingReturns
    \/ ExecuteAgentsOk
    \/ ExecuteAgentsErr
    \/ Synthesize
    \/ Respond
    \/ QueryDone

DispatchSpec == Init /\ [][DispatchNext]_vars

\* synthesize_response after execute_agents, and on its own with any list
\* of results.
SynthesisNext ==
    \/ ExecuteAgentsCall
    \/ ExecutePrimary
    \/ InvokeSupporting
    \/ SupportingReturns
    \/ ExecuteAgentsOk
    \/ ExecuteAgentsErr
    \/ Synthesize
    \/ Respond
    \/ QueryDone
    \/ SynthesizeCall
    \/ SynthesizeReturn

SynthesisSpec == Init /\ [][SynthesisNext]_vars

\* analyze_intent on its own, called with any query and context.
IntentNext ==
    \/ AnalyzeIntentCall
    \/ AnalyzeIntentReturn
    \/ QueryDone

IntentSpec == Init /\ [][IntentNext]_vars

\* select_agents on its own, called with any intent.
SelectNext ==
    \/ SelectAgentsCall
    \/ SelectAgentsReturn
    \/ QueryDone

SelectSpec == Init /\ [][SelectNext]_vars

\* process_user and the monitor side by side: every step of either is
\* taken as soon as the runtime polls it.
ConcNext ==
    \/ ProcessUserConc
    \/ UserGenerateConc
    \/ CompleteStrategy
    \/ UpdateGoalProgress
    \/ UserDone
    \/ MonitorTickConc
    \/ MonitorSleep
    \/ \E p \in Procs :
          \/ MarkExecuting(p)
          \/ ExecuteActionStep(p)
          \/ ExecuteStrategyReturn(p)

ConcSpec == Init /\ [][ConcNext]_vars

\* process_user alone, for users of every profile.
ApprovalNext ==
    \/ ProcessUser
    \/ UserGenerateForProfile
    \/ MarkExecuting("user")
    \/ ExecuteActionStep("user")
    \/ ExecuteStrategyReturn("user")
    \/ CompleteStrategy
    \/ UpdateGoalProgress
    \/ UserDone

ApprovalSpec == Init /\ [][ApprovalNext]_vars

\* One generate_strategy call after another.
GeneratorNext ==
    \/ GenerateStrategy
    \/ AnalyzePortfolio
    \/ GenerateAiStrategy
    \/ CreateStrategy
    \/ GenerateDone

GeneratorSpec == Init /\ [][GeneratorNext]_vars

\* The background task alone, scheduled fairly by the runtime, with the
\* store handing back strategies of at most MaxTickActions actions.
MonitorNext ==
    \/ MonitorTick
    \/ GetPortfolioValue
    \/ GetTotalValue
    \/ GetCompleteProfile
    \/ CheckDrift
    \/ MonitorGenerateShort
    \/ CheckAutoExecute
    \/ MonitorSleep
    \/ MarkExecuting("monitor")
    \/ ExecuteActionStep("monitor")
    \/ ExecuteStrategyReturn("monitor")

LiveSpec == Init /\ [][MonitorNext]_vars /\ WF_vars(MonitorNext)


(***************************************************************************)
(* Properties of the Strategy Execution Engine.                            *)
(***************************************************************************)
Returned(p) == report[p].strategy_id = "set"

Count(seq, x) == Cardinality({ i \in 1..Len(seq) : seq[i] = x })

ActionsOf(recs) == [i \in 1..Len(recs) |-> recs[i].action]

OpsOf(calls) == [i \in 1..Len(calls) |-> calls[i].op]

\* C1: when execute_strategy returns a report, every action of the strategy
\* is in exactly one of executed / failed: the two lists together hold the
\* strategy's actions (as a multiset), their lengths add up to N, and
\* total_executed / total_failed are the lengths of the lists.
C1_ReportPartitionsActions ==
    \A p \in Procs :
        Returned(p) =>
            LET r == report[p]
                acts == strategy[p].actions
            IN  /\ Len(r.executed) + Len(r.failed) = Len(acts)
                /\ r.total_executed = Len(r.executed)
                /\ r.total_failed = Len(r.failed)
                /\ \A a \in ActionPool :
                      Count(acts, a) = Count(ActionsOf(r.executed), a)
                                         + Count(ActionsOf(r.failed), a)

C1_Witness ==
    \E p \in Procs :
        /\ Returned(p)
        /\ Len(strategy[p].actions) = 3
        /\ report[p].total_executed >= 1
        /\ report[p].total_failed >= 1

\* The venue calls a strategy makes when every action is attempted.
RECURSIVE CallsOf(_)
CallsOf(acts) ==
    IF Len(acts) = 0 THEN <<>>
    ELSE execute_action(acts[1], TRUE, 0).calls \o CallsOf(Tail(acts))

\* C2: failure isolation: a failed action never stops the loop.  When the
\* report is returned with some action failed, the venues have received the
\* call of every venue-bound action, in order; and with three venue-bound
\* actions of which only the second fails the report counts 2 executed and
\* 1 failed, the third call having been made.
C2_FailureIsolation ==
    \A p \in Procs :
        (Returned(p) /\ Len(failed[p]) > 0) =>
            LET acts == strategy[p].actions
            IN  /\ idx[p] = Len(acts)
                /\ venueCalls[p] = CallsOf(acts)
                /\ (/\ Len(acts) = 3
                    /\ Len(CallsOf(acts)) = 3
                    /\ Len(failed[p]) = 1
                    /\ failed[p][1].action = acts[2])
                   => (/\ report[p].total_executed = 2
                       /\ report[p].total_failed = 1
                       /\ Len(venueCalls[p]) = 3
                       /\ ActionsOf(executed[p]) \in
                             {<<acts[1], acts[3]>>, <<acts[1], acts[2]>>})

C2_Witness ==
    \E p \in Procs :
        /\ Returned(p)
        /\ Len(strategy[p].actions) = 3
        /\ Len(venueCalls[p]) = 3
        /\ Len(failed[p]) = 1
        /\ failed[p][1].error = "Failed to place crypto order"
        /\ Len(executed[p]) = 2
        /\ executed[p][1].result_id[2] = 1
        /\ executed[p][2].result_id[2] = 3

\* C3: every execution that ran all its actions, started by process_user or
\* by the monitor, and whose caller returned Ok, has had exactly one
\* mark_executing and then exactly one complete_strategy, and has left the
\* strategy completed.
C3_MarkThenCompletePerExecution ==
    \A p \in Procs :
        (Returned(p) /\ pc[p] \in {"returned", "tick_end"} /\ ret[p] = "ok") =>
            /\ Count(OpsOf(storeCalls[p]), "mark_strategy_executing") = 1
            /\ Count(OpsOf(storeCalls[p]), "complete_strategy") = 1
            /\ storeCalls[p][1].op = "mark_strategy_executing"
            /\ status[p] = "completed"

\* C7: an action of an unsupported asset class is recorded as failed with the
\* unknown-asset-class error, no venue is called for it, and the actions
\* after it are processed.
Supported(a) == a.asset_class \in {"crypto", "stocks", "nft"}

C7_UnsupportedAssetClass ==
    \A p \in Procs :
        LET acts == strategy[p].actions
        IN  /\ \A i \in 1..Len(venueCalls[p]) : Supported(venueCalls[p][i].action)
            /\ \A i \in 1..Len(executed[p]) : Supported(executed[p][i].action)
            /\ \A a \in ActionPool :
                 ~Supported(a) =>
                    Count(failed[p], FailedAction(a, "Unknown asset class"))
                        = Count(SubSeq(acts, 1, idx[p]), a)
            /\ Returned(p) => idx[p] = Len(acts)

C7_Witness ==
    \E p \in Procs :
        /\ Returned(p)
        /\ Len(strategy[p].actions) = 3
        /\ strategy[p].actions[1].asset_class = "bond"
        /\ Len(executed[p]) = 2
        /\ Len(venueCalls[p]) = 2
        /\ failed[p] = <<FailedAction(strategy[p].actions[1], "Unknown asset class")>>


(***************************************************************************)
(* Properties of the Rebalance Monitor.                                    *)
(***************************************************************************)
\* Stated without calculate_drift: the crypto weight cv / (cv + sv) (0 when the
\* portfolio is empty) differs from the target weight t[1] / t[2] by more
\* than 5 percent.
MoreThanFivePercent(cv, sv, t) ==
    IF cv + sv = 0
    THEN 100 * t[1] > 5 * t[2]
    ELSE 100 * Abs(t[2] * cv - t[1] * (cv + sv)) > 5 * t[2] * (cv + sv)

TargetWeight(prof) ==
    LET t == prof.active_strategies[1].target_allocation
    IN  IF "crypto" \in DOMAIN t THEN t.crypto ELSE <<0, 1>>

\* C8: in a tick with an active strategy, rebalancing (the generation of a
\* rebalance strategy) is triggered if and only if the drift is strictly above
\* 5%; drift of exactly 5% ends the tick with nothing triggered.
C8_DriftStrictlyAboveThreshold ==
    [][ (pc["monitor"] = "check_drift" /\ Len(profile.active_strategies) > 0) =>
          IF MoreThanFivePercent(crypto_value, stock_value, TargetWeight(profile))
          THEN pc'["monitor"] = "generate"
          ELSE /\ pc'["monitor"] = "tick_end"
               /\ ret'["monitor"] = "ok"
               /\ strategy'["monitor"] = NoStrategy
               /\ storeCalls'["monitor"] = <<>>
               /\ venueCalls'["monitor"] = <<>> ]_vars

\* Drift of exactly 5% (0.35 against a target of 0.30): nothing is triggered.
C8_Witness ==
    /\ pc["monitor"] = "tick_end"
    /\ ret["monitor"] = "ok"
    /\ status["monitor"] = "none"
    /\ crypto_value = 350000
    /\ stock_value = 650000
    /\ Len(profile.active_strategies) > 0
    /\ TargetWeight(profile) = <<3, 10>>

\* C9: in a tick whose drift exceeds the threshold, execute_strategy is entered
\* if and only if an active goal has auto_execute; otherwise the tick only
\* notifies, with no mark_executing call and no venue order.
C9_ExecutesOnlyForActiveAutoGoal ==
    [][ pc["monitor"] = "check_auto_execute" =>
          IF AnyAutoExecuteActive(profile)
          THEN pc'["monitor"] = "mark_executing"
          ELSE /\ pc'["monitor"] = "tick_end"
               /\ storeCalls'["monitor"] = <<>>
               /\ venueCalls'["monitor"] = <<>> ]_vars

\* C10: a tick that returns an error does not end the background loop: the
\* error is logged, the task sleeps and the next tick starts; every tick ends
\* and is followed by another tick.
C10_MonitorLoopSurvives ==
    /\ (pc["monitor"] = "tick_end" /\ ret["monitor"] = "err") ~> (pc["monitor"] = "sleep")
    /\ []<>(pc["monitor"] = "get_portfolio_value")

\* A tick that failed inside the execution it triggered.
C10_Witness ==
    /\ pc["monitor"] = "tick_end"
    /\ ret["monitor"] = "err"
    /\ Len(storeCalls["monitor"]) = 1
    /\ ~storeCalls["monitor"][1].ok

\* C11: complete_strategy is called for a strategy only after every one of
\* its actions has an Executed or Failed outcome; and once process_user has
\* the report, it has called complete_strategy whatever the number of failed
\* actions, and a successful call leaves the strategy completed.
C11_CompleteAfterAllOutcomes ==
    /\ \A p \in Procs :
          Count(OpsOf(storeCalls[p]), "complete_strategy") > 0 =>
              /\ Returned(p)
              /\ idx[p] = Len(strategy[p].actions)
              /\ Len(executed[p]) + Len(failed[p]) = Len(strategy[p].actions)
    /\ (Returned("user") /\ pc["user"] \in {"update_goal_progress", "returned"}) =>
          /\ Count(OpsOf(storeCalls["user"]), "complete_strategy") = 1
          /\ storeCalls["user"][2].op = "complete_strategy"
          /\ storeCalls["user"][2].ok => status["user"] = "completed"

\* Every action of a three-action strategy failed and the strategy is
\* completed all the same.
C11_Witness ==
    /\ pc["user"] = "returned"
    /\ ret["user"] = "ok"
    /\ Len(strategy["user"].actions) = 3
    /\ report["user"].total_failed = 3
    /\ status["user"] = "completed"

\* The error text execute_action gives for an action that fails.
ErrorTextOf(a) ==
    CASE a.asset_class = "crypto" -> "Failed to place crypto order"
      [] a.asset_class = "stocks" -> "Failed to place stock order"
      [] a.asset_class = "nft" ->
            IF a.action_type \in {"breed", "buy", "lock_collateral"}
            THEN "venue error" ELSE "Unknown NFT action"
      [] OTHER -> "Unknown asset class"

\* C12: once mark_executing has succeeded, execute_strategy returns a report
\* and never an error: when the loop is left the report exists, the monitor's
\* tick returns Ok, an error of process_user comes from a later store call,
\* and every failed action is a Failed record carrying its error text.
C12_ActionFailuresStayInReport ==
    \A p \in Procs :
        (storeCalls[p] # <<>> /\ storeCalls[p][1].ok) =>
            /\ pc[p] # "loop" => Returned(p)
            /\ pc[p] = "tick_end" => ret[p] = "ok"
            /\ ret[p] = "err" => \E i \in 2..Len(storeCalls[p]) : ~storeCalls[p][i].ok
            /\ \A i \in 1..Len(failed[p]) :
                  /\ failed[p][i].error # "none"
                  /\ failed[p][i].error = ErrorTextOf(failed[p][i].action)

\* A report whose three failures are a venue transport error, an unsupported
\* asset class and an unsupported action kind.
C12_Witness ==
    \E p \in Procs :
        /\ Returned(p)
        /\ report[p].total_failed = 3
        /\ \E i, j, k \in 1..3 :
              /\ report[p].failed[i].error = "Failed to place crypto order"
              /\ report[p].failed[j].error = "Unknown asset class"
              /\ report[p].failed[k].error = "Unknown NFT action"

\* C13: a profile-store failure propagates.  If mark_executing fails,
\* execute_strategy returns an error at once: no action is attempted, no
\* venue is called, no report is produced and no further store call is made.
\* If any store call of process_user fails, process_user returns an error.
C13_StoreFailurePropagates ==
    /\ \A p \in Procs :
          (storeCalls[p] # <<>> /\ ~storeCalls[p][1].ok) =>
              /\ storeCalls[p][1].op = "mark_strategy_executing"
              /\ Len(storeCalls[p]) = 1
              /\ venueCalls[p] = <<>>
              /\ executed[p] = <<>>
              /\ failed[p] = <<>>
              /\ idx[p] = 0
              /\ ~Returned(p)
              /\ pc[p] \in {"returned", "tick_end"}
              /\ ret[p] = "err"
    /\ (\E i \in 1..Len(storeCalls["user"]) : ~storeCalls["user"][i].ok) =>
          /\ pc["user"] = "returned"
          /\ ret["user"] = "err"

\* mark_executing failed for a strategy of three venue-bound actions.
C13_Witness ==
    \E p \in Procs :
        /\ storeCalls[p] = <<StoreCall("mark_strategy_executing", FALSE)>>
        /\ Len(CallsOf(strategy[p].actions)) = 3
        /\ ret[p] = "err"

\* The elements of seq at the positions i with keep[i], in order.
RECURSIVE Pick(_, _)
Pick(seq, keep) ==
    IF seq = <<>> THEN <<>>
    ELSE LET n == Len(seq)
             front == Pick(SubSeq(seq, 1, n - 1), keep)
         IN  IF keep[n] THEN Append(front, seq[n]) ELSE front

\* C14: actions are attempted strictly in their stored order, whatever their
\* priorities.  At every moment of an execution the outcomes recorded are
\* those of the first idx actions, the venue calls made are those of these
\* actions in stored order, and the executed and the failed list are two
\* complementary subsequences of them (each keeps the stored relative order).
C14_StoredOrder ==
    \A p \in Procs :
        LET done == SubSeq(strategy[p].actions, 1, idx[p])
        IN  /\ idx[p] = Len(executed[p]) + Len(failed[p])
            /\ venueCalls[p] = CallsOf(done)
            /\ \E keep \in [1..idx[p] -> BOOLEAN] :
                  /\ ActionsOf(executed[p]) = Pick(done, keep)
                  /\ ActionsOf(failed[p]) = Pick(done, [i \in 1..idx[p] |-> ~keep[i]])

\* Three actions stored by descending priority: the first and the third
\* executed, the second failed, the venue calls made in stored order.
C14_Witness ==
    \E p \in Procs :
        LET acts == strategy[p].actions
        IN  /\ Returned(p)
            /\ Len(acts) = 3
            /\ acts[1].priority > acts[2].priority
            /\ acts[2].priority > acts[3].priority
            /\ Len(venueCalls[p]) = 3
            /\ ActionsOf(venueCalls[p]) = acts
            /\ ActionsOf(executed[p]) = <<acts[1], acts[3]>>
            /\ ActionsOf(failed[p]) = <<acts[2]>>

(***************************************************************************)
(* Properties of the query path.                                           *)
(***************************************************************************)
RECURSIVE OkResults(_)
OkResults(outs) ==
    IF Len(outs) = 0 THEN <<>>
    ELSE (IF outs[1].ok THEN <<AgentResult(outs[1].agent)>> ELSE <<>>)
         \o OkResults(Tail(outs))

\* C4: with a Parallel or Sequential plan whose primary handler succeeded,
\* execute_agents returns Ok whatever the supporting handlers did: every
\* supporting handler has been invoked and the result list is the primary
\* result followed by the results of the supporting handlers that succeeded.
C4_SupportingFailureIsolated ==
    (/\ dispatch # "none"
     /\ RunsSupporting(plan)
     /\ outcomes[1].ok) =>
        /\ dispatch = "ok"
        /\ Len(outcomes) = 1 + Len(plan.supporting_agents)
        /\ results = OkResults(outcomes)

\* C5: when the primary handler fails, no supporting handler is invoked,
\* synthesize_response is not called, no response exists, route_query
\* returns an error and the endpoint answers with an error status.
C5_PrimaryFailureIsAnError ==
    (Len(outcomes) > 0 /\ ~outcomes[1].ok) =>
        /\ Len(outcomes) = 1
        /\ synth_calls = 0
        /\ response.answer = "unset"
        /\ dispatch # "ok"
        /\ rpc \in {"respond", "done"} => route_result = "err"
        /\ rpc = "done" => http = "500"

C5_Witness ==
    /\ rpc = "done"
    /\ Len(outcomes) = 1
    /\ ~outcomes[1].ok
    /\ Len(plan.supporting_agents) > 0
    /\ route_result = "err"
    /\ http = "500"

\* C6: a plan never lists its primary handler among its supporting handlers;
\* for "show my transactions" with context [transaction, email] the plan is
\* LedgerAgent / no supporting handler / Single; so the primary handler is
\* invoked once per dispatch.
ShowMyTransactions == Join(<<S_show, S_my, S_transactions>>)

C6_PrimaryNotAmongSupporting ==
    plan.primary_agent # "unset" =>
        /\ ~SeqContains(plan.supporting_agents, plan.primary_agent)
        /\ (/\ request.query = ShowMyTransactions
            /\ request.available_data_types = <<S_transaction, S_email>>) =>
              plan = [primary_agent |-> "LedgerAgent", supporting_agents |-> <<>>,
                      execution_strategy |-> "Single"]
        /\ Count([i \in 1..Len(outcomes) |-> outcomes[i].agent], plan.primary_agent) <= 1

\* C15: whenever execute_agents returns a result list (Ok), the list is
\* non-empty and its first element is the result of the plan's primary
\* agent, for each of the four execution strategies and every list of
\* supporting agents.
C15_PrimaryResultFirst ==
    dispatch = "ok" =>
        /\ Len(results) >= 1
        /\ results[1] = AgentResult(plan.primary_agent)
        /\ outcomes[1] = Outcome(plan.primary_agent, TRUE)

\* A Parallel plan with two supporting agents, both different from the
\* primary agent, has returned its three results.
C15_Witness ==
    /\ dispatch = "ok"
    /\ plan.execution_strategy = "Parallel"
    /\ Len(plan.supporting_agents) = 2
    /\ \A i \in 1..2 : plan.supporting_agents[i] # plan.primary_agent
    /\ Len(results) = 3

\* C17: the agent identifiers form a closed set of exactly 42 members: the
\* AgentType enumeration has 42 variants, list_agents lists every variant
\* exactly once so that total_agents is 42, and this is the agent count the
\* health endpoint reports.
C17_FortyTwoAgents ==
    /\ Cardinality(AgentType) = 42
    /\ agents_reply.sent =>
          /\ agents_reply.total_agents = 42
          /\ \A a \in AgentType : Count(agents_reply.agents, a) = 1
          /\ \A i \in 1..Len(agents_reply.agents) : agents_reply.agents[i] \in AgentType
    /\ health_reply.sent =>
          /\ health_reply.agents = 42
          /\ health_reply.agents = Cardinality(AgentType)
          /\ health_reply.agents = Len(list_agents.agents)

\* a rational <<n, d>> with d > 0 lies in [0, 1]
InUnit(q) == 0 <= q[1] /\ q[1] <= q[2]

\* Venue balances with a positive total, for the current snapshot.
Balances == {0, 1, 3}

AssetClasses == {"stocks", "crypto", "nfts", "cash"}

\* C18: both snapshots the monitor compares are per-asset-class fractional
\* weights in [0,1] summing to 1: the current snapshot computed from venue
\* balances (of positive total), and the target snapshot the strategy
\* generator stores in a strategy's target_allocation; hence the drift
\* computed from them is in [0,1].
C18_SnapshotsAreWeights ==
    /\ \A cv \in Balances, sv \in Balances :
          cv + sv > 0 =>
              LET c == current_allocation(cv, sv)
              IN  /\ InUnit(c.crypto)
                  /\ InUnit(c.stocks)
                  /\ c.crypto[2] = c.stocks[2]
                  /\ c.crypto[1] + c.stocks[1] = c.crypto[2]
    /\ gen_strategy.status \in {"generated", "saved"} =>
          LET t == gen_strategy.target_allocation
          IN  /\ \A k \in AssetClasses : InUnit(t[k])
              /\ t.stocks[1] + t.crypto[1] + t.nfts[1] + t.cash[1] = 100
              /\ \A cv \in Balances, sv \in Balances :
                    cv + sv > 0 =>
                        InUnit(calculate_drift(CurrentCrypto(cv, sv), TargetCrypto(t)))

\* C19: there is no mutual exclusion between the monitor and a manually
\* triggered execution.  Whatever the other is doing, a process_user call
\* and a tick can start, a mark_executing call can be made, and the loop of
\* execute_strategy can take its next step (a venue order or the return).
C19_NoMutualExclusion ==
    /\ pc["user"] = "idle" => ENABLED ProcessUserConc
    /\ pc["monitor"] = "sleep" => ENABLED MonitorTickConc
    /\ \A p \in Procs :
          /\ pc[p] = "mark_executing" => ENABLED MarkExecuting(p)
          /\ pc[p] = "loop" => ENABLED (ExecuteActionStep(p) \/ ExecuteStrategyReturn(p))

\* Both executions are in the middle of their loops: each has marked its
\* strategy executing, placed one venue order and has another to place.
C19_Witness ==
    \A p \in Procs :
        /\ pc[p] = "loop"
        /\ status[p] = "executing"
        /\ OpsOf(storeCalls[p]) = <<"mark_strategy_executing">>
        /\ Len(venueCalls[p]) = 1
        /\ idx[p] < Len(strategy[p].actions)

\* C20: under the Parallel strategy the supporting agents are invoked
\* concurrently: while the invocation of one supporting agent is in flight
\* and another supporting agent is still to be invoked, the invocation of
\* that other agent can start.
C20_ParallelInvocationsOverlap ==
    (/\ rpc = "await_supporting"
     /\ plan.execution_strategy = "Parallel"
     /\ sup_idx + 1 < Len(plan.supporting_agents))
        => ENABLED InvokeSupporting

\* C21: under the Sequential strategy the supporting agents are invoked one
\* at a time in the order of the plan's supporting list: while an invocation
\* is in flight every earlier one has returned and no other can start, the
\* k-th supporting invocation is that of the k-th agent of the list, and the
\* results after the primary result are in the order of the list.
C21_SequentialInOrder ==
    plan.execution_strategy = "Sequential" =>
        /\ \A i \in 2..Len(outcomes) :
              outcomes[i].agent = plan.supporting_agents[i - 1]
        /\ \A i \in 2..Len(results) :
              results[i] = AgentResult(plan.supporting_agents[i - 1])
        /\ rpc = "await_supporting" =>
              /\ Len(outcomes) = 1 + sup_idx
              /\ \A i \in 1..Len(outcomes) : outcomes[i].ok
              /\ ~ ENABLED InvokeSupporting
        /\ dispatch = "ok" => Len(results) = 1 + Len(plan.supporting_agents)

\* A Sequential plan with two different supporting agents has returned the
\* primary result followed by the two supporting results.
C21_Witness ==
    /\ dispatch = "ok"
    /\ plan.execution_strategy = "Sequential"
    /\ Len(plan.supporting_agents) = 2
    /\ plan.supporting_agents[1] # plan.supporting_agents[2]
    /\ Len(results) = 3

\* A direct select_agents call has returned its plan.
Selected == rpc = "done" /\ plan # NoPlan /\ intent # NoIntent

\* C22: determine_strategy returns Single if and only if the supporting
\* list is empty; with a non-empty supporting list it returns Sequential
\* for an Analyze intent and Parallel for every other intent type; it never
\* returns Conditional.
C22_StrategyBySupportingAndIntent ==
    Selected =>
        /\ (plan.execution_strategy = "Single") <=> (plan.supporting_agents = <<>>)
        /\ plan.supporting_agents # <<>> =>
              plan.execution_strategy =
                  IF intent.intent_type = "Analyze" THEN "Sequential" ELSE "Parallel"
        /\ plan.execution_strategy # "Conditional"

\* An Analyze intent with a supporting agent got Sequential.
C22_Witness ==
    /\ Selected
    /\ intent.intent_type = "Analyze"
    /\ Len(plan.supporting_agents) >= 1
    /\ plan.execution_strategy = "Sequential"

\* The priority order of the primary table and its agents.
PrimaryOrder == <<S_email, S_meeting, S_transaction, S_document,
                  S_code, S_trade, S_health, S_fitness>>
PrimaryHandlers == <<"EmailAgent", "CalendarAgent", "LedgerAgent", "DocumentParser",
                     "CodeEditor", "TradingAgent", "HealthAgent", "FitnessAgent">>

Referenced(dts) == { dts[i] : i \in 1..Len(dts) }

\* C23: the primary agent is that of the first data type, in the fixed
\* order email, meeting, transaction, document, code, trade, health,
\* fitness, that the intent references, whatever the order of the data
\* types in the intent; when it references none of them the primary agent
\* is KnowledgeAgent.
C23_PrimaryByPriority ==
    Selected =>
        LET hits == { k \in 1..Len(PrimaryOrder) :
                        PrimaryOrder[k] \in Referenced(intent.data_types) }
        IN  /\ hits = {} => plan.primary_agent = "KnowledgeAgent"
            /\ hits # {} =>
                  \E k \in hits :
                      /\ \A j \in hits : k <= j
                      /\ plan.primary_agent = PrimaryHandlers[k]

\* fitness is listed before email and EmailAgent is the primary agent.
C23_Witness ==
    /\ Selected
    /\ intent.data_types = <<S_fitness, S_contact, S_email>>
    /\ plan.primary_agent = "EmailAgent"

\* C24: the supporting agent list of a plan contains no agent more than
\* once, for every list of data types of the intent, also when the same
\* data type occurs at positions that are not adjacent.
C24_SupportingDistinct ==
    Selected =>
        \A i, j \in 1..Len(plan.supporting_agents) :
            plan.supporting_agents[i] = plan.supporting_agents[j] => i = j

\* C25: every data type that can select a primary agent also has its
\* agent in the supporting table: a referenced data type of the primary
\* table whose agent is not the primary agent of the plan contributes that
\* agent to the supporting list.
C25_SupportingCoversPrimaryTable ==
    Selected =>
        \A k \in 1..Len(PrimaryOrder) :
            (/\ PrimaryOrder[k] \in Referenced(intent.data_types)
             /\ PrimaryHandlers[k] # plan.primary_agent)
                => SeqContains(plan.supporting_agents, PrimaryHandlers[k])

\* A direct analyze_intent call has returned its intent.
Analyzed == rpc = "done" /\ request.set /\ intent # NoIntent

\* The prefix rules in their order.
PrefixRules ==
    << <<S_show, "Search">>, <<S_find, "Search">>, <<S_summarize, "Summarize">>,
       <<S_analyze, "Analyze">>, <<S_create, "Generate">>, <<S_generate, "Generate">>,
       <<S_execute, "Execute">>, <<S_trade, "Execute">> >>

MatchingRules(query_lower) ==
    { k \in 1..Len(PrefixRules) : starts_with(query_lower, PrefixRules[k][1]) }

\* C26: analyze_intent never fails and picks the intent type from the
\* lowercased query by the first matching rule in the order show or find ->
\* Search, summarize -> Summarize, analyze -> Analyze, create or generate ->
\* Generate, execute or trade -> Execute, otherwise Conversation; the result
\* does not depend on the letter case of the query.
C26_IntentByFirstPrefixRule ==
    /\ rpc = "analyze_intent_call" => ENABLED AnalyzeIntentReturn
    /\ Analyzed =>
          LET query_lower == to_lowercase(request.query)
              hits == MatchingRules(query_lower)
          IN  /\ intent.intent_type \in IntentType
              /\ hits = {} => intent.intent_type = "Conversation"
              /\ hits # {} =>
                    \E k \in hits :
                        /\ \A j \in hits : k <= j
                        /\ intent.intent_type = PrefixRules[k][2]
              /\ intent = analyze_intent(query_lower, request.available_data_types)

\* "ANALYZE email" is an Analyze intent.
C26_Witness ==
    /\ Analyzed
    /\ request.query = Join(<<S_ANALYZE, S_email>>)
    /\ intent.intent_type = "Analyze"

\* C27: the data types of an intent are exactly the entries of the context
\* whose name occurs in the lowercased query, in the order of the context,
\* each at most once even when the context declares it several times.
C27_DataTypesOnceInContextOrder ==
    Analyzed =>
        LET query_lower == to_lowercase(request.query)
            context == request.available_data_types
            dts == intent.data_types
            FirstAt(dt) == CHOOSE i \in 1..Len(context) :
                              /\ context[i] = dt
                              /\ \A j \in 1..(i - 1) : context[j] # dt
        IN  /\ Referenced(dts) =
                  { context[i] : i \in { j \in 1..Len(context) :
                                            contains(query_lower, context[j]) } }
            /\ \A i, j \in 1..Len(dts) : dts[i] = dts[j] => i = j
            /\ \A i, j \in 1..Len(dts) : i < j => FirstAt(dts[i]) < FirstAt(dts[j])

\* C28, as stated: every query that matches none of the prefix rules is a
\* Conversation intent with no data types, whatever the context declares.
C28_UnmatchedHasNoDataTypes ==
    (Analyzed /\ MatchingRules(to_lowercase(request.query)) = {}) =>
        /\ intent.intent_type = "Conversation"
        /\ intent.data_types = <<>>

\* C28, amended: every query that matches none of the prefix rules is a
\* Conversation intent; its data types are empty exactly when no entry of
\* the context occurs in the lowercased query, and each of them is an entry
\* of the context that occurs in it.
C28_UnmatchedIsConversation ==
    (Analyzed /\ MatchingRules(to_lowercase(request.query)) = {}) =>
        LET query_lower == to_lowercase(request.query)
            context == request.available_data_types
        IN  /\ intent.intent_type = "Conversation"
            /\ (intent.data_types = <<>>) <=>
                  (\A i \in 1..Len(context) : ~ contains(query_lower, context[i]))
            /\ \A i \in 1..Len(intent.data_types) :
                  /\ SeqContains(context, intent.data_types[i])
                  /\ contains(query_lower, intent.data_types[i])

\* "my EMAIL" with a context that declares email is a Conversation intent
\* that references email.
C28_Witness ==
    /\ Analyzed
    /\ request.query = Join(<<S_my, S_EMAIL>>)
    /\ request.available_data_types = <<S_email>>
    /\ intent.intent_type = "Conversation"
    /\ intent.data_types = <<S_email>>

\* The venue calls made so far for the action a.
CallsFor(p, a) == SelectSeq(venueCalls[p], LAMBDA c : c.action = a)

\* The actions execute_strategy has processed so far.
Processed(p) == SubSeq(strategy[p].actions, 1, idx[p])

NftOps == [breed |-> "breed_nft", buy |-> "buy_nft",
           lock_collateral |-> "lock_nft_collateral"]

\* C29: for an nft action the action type selects exactly one call: breed
\* -> breed_nft, buy -> buy_nft, lock_collateral -> lock_nft_collateral, all
\* on Delt; any other action type fails with the unknown-NFT-action error
\* without any venue call, and that failure is in the failed list.
C29_NftActionSelectsOneCall ==
    \A p \in Procs :
        \A a \in { b \in ActionPool : b.asset_class = "nft" } :
            LET n == Count(Processed(p), a)
            IN  IF a.action_type \in DOMAIN NftOps
                THEN /\ Len(CallsFor(p, a)) = n
                     /\ \A i \in 1..Len(CallsFor(p, a)) :
                           /\ CallsFor(p, a)[i].op = NftOps[a.action_type]
                           /\ CallsFor(p, a)[i].venue = "delt"
                     /\ Count(ActionsOf(executed[p]), a)
                           + Count(ActionsOf(failed[p]), a) = n
                ELSE /\ CallsFor(p, a) = <<>>
                     /\ Count(ActionsOf(executed[p]), a) = 0
                     /\ Count(failed[p], FailedAction(a, "Unknown NFT action")) = n

\* A strategy of a stake, a breed, a buy: the stake failed without a call,
\* the breed and the buy each made their one call.
C29_Witness ==
    \E p \in Procs :
        /\ Returned(p)
        /\ Len(strategy[p].actions) = 3
        /\ [i \in 1..3 |-> strategy[p].actions[i].action_type] = <<"stake", "breed", "buy">>
        /\ \A i \in 1..3 : strategy[p].actions[i].asset_class = "nft"
        /\ OpsOf(venueCalls[p]) = <<"breed_nft", "buy_nft">>
        /\ failed[p] = <<FailedAction(strategy[p].actions[1], "Unknown NFT action")>>
        /\ Len(executed[p]) = 2

\* The venue of an asset class.
VenueOf == [crypto |-> "delt", stocks |-> "brokerage", nft |-> "delt"]

\* C30: the executor dispatches by the asset class alone: a crypto action
\* makes exactly one place_order call on Delt, a stocks action exactly one
\* place_order call on the brokerage, no call goes to a venue other than
\* that of the action's asset class, and the result_id of an executed
\* record is the identifier the venue returned for that action's call.
C30_DispatchByAssetClass ==
    \A p \in Procs :
        /\ \A i \in 1..Len(venueCalls[p]) :
              LET c == venueCalls[p][i]
              IN  /\ c.action.asset_class \in DOMAIN VenueOf
                  /\ c.venue = VenueOf[c.action.asset_class]
        /\ \A a \in { b \in ActionPool : b.asset_class \in {"crypto", "stocks"} } :
              /\ Len(CallsFor(p, a)) = Count(Processed(p), a)
              /\ \A i \in 1..Len(CallsFor(p, a)) : CallsFor(p, a)[i].op = "place_order"
        /\ \A i \in 1..Len(executed[p]) :
              LET e == executed[p][i]
                  no == e.result_id[2]
              IN  /\ no \in 1..Len(venueCalls[p])
                  /\ venueCalls[p][no].action = e.action
                  /\ e.action.asset_class = "crypto" => e.result_id[1] = "tx_hash"
                  /\ e.action.asset_class = "stocks" => e.result_id[1] = "order_id"
                  /\ \A j \in 1..Len(executed[p]) :
                        executed[p][j].result_id = e.result_id => i = j

\* A crypto buy and a stocks buy were both executed: one order on Delt,
\* then one on the brokerage, and the two identifiers are in the report.
C30_Witness ==
    \E p \in Procs :
        /\ Returned(p)
        /\ [i \in 1..Len(strategy[p].actions) |-> strategy[p].actions[i].asset_class]
              = <<"crypto", "stocks">>
        /\ [i \in 1..Len(venueCalls[p]) |-> venueCalls[p][i].venue]
              = <<"delt", "brokerage">>
        /\ [i \in 1..Len(executed[p]) |-> executed[p][i].result_id]
              = << <<"tx_hash", 1>>, <<"order_id", 2>> >>

\* C31: the status the store calls of the engine give a strategy is one of
\* generated, executing, completed (none before there is a strategy); it
\* never goes back to generated from executing or completed, never from
\* completed to executing, and is never failed, whatever the actions did.
C31_StatusNeverFailsNorReverts ==
    [][\A p \in Procs :
          /\ status'[p] \in {"none", "generated", "executing", "completed"}
          /\ status[p] \in {"executing", "completed"} => status'[p] # "generated"
          /\ status[p] = "completed" => status'[p] # "executing"
          /\ status[p] = "generated" => status'[p] \in {"generated", "executing", "none"}
      ]_vars

\* Both actions of a strategy failed and the strategy is completed.
C31_Witness ==
    /\ Returned("user")
    /\ Len(strategy["user"].actions) = 2
    /\ report["user"].total_failed = 2
    /\ report["user"].total_executed = 0
    /\ status["user"] = "completed"
    /\ OpsOf(storeCalls["user"]) = <<"mark_strategy_executing", "complete_strategy">>

\* C32: the response synthesize_response builds has a data list and an
\* agents_used list of the length of the result list, data[i] and
\* agents_used[i] coming from result i; after execute_agents, agents_used
\* are the agents whose invocation succeeded, the primary agent first; the
\* confidence is within [0, 1] (hundredths: 0..100).
C32_ResponseMirrorsResults ==
    response.answer # "unset" =>
        /\ Len(response.data) = Len(results)
        /\ Len(response.agents_used) = Len(results)
        /\ \A i \in 1..Len(results) :
              /\ response.data[i] = results[i].data
              /\ response.agents_used[i] = results[i].agent
        /\ dispatch = "ok" =>
              /\ response.agents_used[1] = plan.primary_agent
              /\ response.agents_used =
                    [i \in 1..Len(OkResults(outcomes)) |-> OkResults(outcomes)[i].agent]
        /\ 0 <= response.confidence /\ response.confidence <= 100

\* Two results with different payloads were synthesized in their order.
C32_Witness ==
    /\ response.answer # "unset"
    /\ Len(results) = 2
    /\ response.data = <<"other payload", "payload">>
    /\ response.agents_used = <<"LedgerAgent", "EmailAgent">>

\* C33: update_goal_progress is called only by report_results, only for a
\* strategy with a goal, at most once, and only right after a
\* complete_strategy that succeeded; when report_results has completed a
\* strategy it has called update_goal_progress exactly once if the strategy
\* has a goal and not at all otherwise.
C33_GoalProgressOnceAfterComplete ==
    \A p \in Procs :
        LET calls == storeCalls[p]
            n == Count(OpsOf(calls), "update_goal_progress")
        IN  /\ n <= 1
            /\ strategy[p].goal_id # "Some" => n = 0
            /\ \A i \in 1..Len(calls) :
                  calls[i].op = "update_goal_progress" =>
                      /\ i > 1
                      /\ calls[i - 1] = StoreCall("complete_strategy", TRUE)
            /\ (/\ pc[p] = "returned"
                /\ \E i \in 1..Len(calls) : calls[i] = StoreCall("complete_strategy", TRUE))
                  => n = IF strategy[p].goal_id = "Some" THEN 1 ELSE 0

\* A strategy with a goal was completed and its goal updated once.
C33_Witness ==
    /\ pc["user"] = "returned"
    /\ strategy["user"].goal_id = "Some"
    /\ storeCalls["user"] = <<StoreCall("mark_strategy_executing", TRUE),
                              StoreCall("complete_strategy", TRUE),
                              StoreCall("update_goal_progress", TRUE)>>

\* C34: process_user executes every strategy it generates without an
\* approval gate: whatever the auto_execute flags of the user's goals, a
\* generated strategy is handed to execute_strategy at once, which can
\* start, and when it returns the venue call of every venue-bound action
\* has been made.
C34_NoApprovalGate ==
    /\ (pc["user"] # "idle" /\ strategy["user"] # NoStrategy) =>
          \/ pc["user"] = "mark_executing" /\ ENABLED MarkExecuting("user")
          \/ /\ storeCalls["user"] # <<>>
             /\ storeCalls["user"][1].op = "mark_strategy_executing"
    /\ Returned("user") => venueCalls["user"] = CallsOf(strategy["user"].actions)

\* A user whose two goals both have auto_execute off has had an order
\* placed.
C34_Witness ==
    /\ Returned("user")
    /\ Len(profile.goals) = 2
    /\ ~ AnyAutoExecute(profile)
    /\ Len(venueCalls["user"]) = 1
    /\ Len(executed["user"]) = 1

\* The store call of report_results that failed, if one did.
ReportFailure ==
    { i \in 2..Len(storeCalls["user"]) : ~ storeCalls["user"][i].ok }

\* C35: when execute_strategy has returned its report in process_user and
\* complete_strategy or update_goal_progress then fails, process_user
\* returns an error instead of the report, while the venue calls of the
\* strategy's actions have all been made and stay made; after a failed
\* complete_strategy the strategy is still executing.
C35_ReportFailureAfterExecution ==
    ReportFailure # {} =>
        LET calls == storeCalls["user"]
            last == calls[Len(calls)]
        IN  /\ ReportFailure = {Len(calls)}
            /\ last.op \in {"complete_strategy", "update_goal_progress"}
            /\ Returned("user")
            /\ pc["user"] = "returned"
            /\ ret["user"] = "err"
            /\ venueCalls["user"] = CallsOf(strategy["user"].actions)
            /\ Len(executed["user"]) + Len(failed["user"]) = Len(strategy["user"].actions)
            /\ \A i \in 1..Len(executed["user"]) :
                  \E j \in 1..Len(venueCalls["user"]) :
                      venueCalls["user"][j].action = executed["user"][i].action
            /\ last.op = "complete_strategy" => status["user"] = "executing"
            /\ last.op = "update_goal_progress" => status["user"] = "completed"

\* Two orders were placed and complete_strategy then failed.
C35_Witness ==
    /\ storeCalls["user"] = <<StoreCall("mark_strategy_executing", TRUE),
                              StoreCall("complete_strategy", FALSE)>>
    /\ Len(executed["user"]) = 2
    /\ Len(venueCalls["user"]) = 2
    /\ status["user"] = "executing"
    /\ ret["user"] = "err"

\* C36: a tick whose profile has no active strategy returns Ok with no drift
\* decision taken, no strategy generated, no mark_executing call and no
\* venue order; with several active strategies the decision to rebalance
\* is that of the first one's target allocation.
C36_NoActiveStrategyNoAction ==
    [][ pc["monitor"] = "check_drift" =>
          IF profile.active_strategies = <<>>
          THEN /\ pc'["monitor"] = "tick_end"
               /\ ret'["monitor"] = "ok"
               /\ strategy'["monitor"] = NoStrategy
               /\ status'["monitor"] = "none"
               /\ storeCalls'["monitor"] = <<>>
               /\ venueCalls'["monitor"] = <<>>
          ELSE (pc'["monitor"] = "generate") <=>
                  MoreThanFivePercent(crypto_value, stock_value,
                      LET t == Head(profile.active_strategies).target_allocation
                      IN  IF "crypto" \in DOMAIN t THEN t.crypto ELSE <<0, 1>>)
      ]_vars

\* A tick read a portfolio of crypto only and a profile without active
\* strategy, and returned Ok.
C36_Witness ==
    /\ pc["monitor"] = "tick_end"
    /\ ret["monitor"] = "ok"
    /\ profile.read
    /\ profile.active_strategies = <<>>
    /\ crypto_value = 350001
    /\ stock_value = 0
    /\ strategy["monitor"] = NoStrategy
    /\ storeCalls["monitor"] = <<>>
    /\ venueCalls["monitor"] = <<>>

\* The tick ends with an error and has generated, marked and ordered nothing.
TickEndsInErrorWithNothingDone ==
    /\ pc'["monitor"] = "tick_end"
    /\ ret'["monitor"] = "err"
    /\ strategy'["monitor"] = NoStrategy
    /\ status'["monitor"] = "none"
    /\ storeCalls'["monitor"] = <<>>
    /\ venueCalls'["monitor"] = <<>>

\* C37: in a tick, when the read of the crypto portfolio value, of the
\* brokerage total value or of the profile yields no value, the tick ends
\* with an error there: no strategy has been generated, mark_executing has
\* not been called and no venue order has been placed.
C37_ReadFailureEndsTick ==
    [][ /\ (pc["monitor"] = "get_portfolio_value" /\ crypto_value' = NoValue)
              => TickEndsInErrorWithNothingDone
        /\ (pc["monitor"] = "get_total_value" /\ stock_value' = NoValue)
              => TickEndsInErrorWithNothingDone
        /\ (pc["monitor"] = "get_complete_profile" /\ ~ profile'.read)
              => TickEndsInErrorWithNothingDone
      ]_vars

\* Both values were read, the read of the profile failed, and the tick
\* has ended with the error.
C37_Witness ==
    /\ pc["monitor"] = "tick_end"
    /\ ret["monitor"] = "err"
    /\ crypto_value = 350001
    /\ stock_value = 650000
    /\ ~ profile.read
    /\ strategy["monitor"] = NoStrategy
    /\ storeCalls["monitor"] = <<>>

====
